---- MODULE Spec2Model ----
(***************************************************************************)
(* The transaction manager of the database (src/src/transaction_manager.rs)*)
(* as a state machine: one action per public operation.  The manager's     *)
(* collaborators whose code lives outside transaction_manager.rs (the lock *)
(* manager, the deadlock detector, the MVCC manager, the savepoint         *)
(* manager, the write-ahead log and the Transaction object) are modelled   *)
(* from their contracts in spec.md, sections 3 and 4.1-4.6.                *)
(***************************************************************************)
EXTENDS Integers, Sequences, FiniteSets, TLC

\* ------------------------------------------------------------------ bounds
\* Number of begin_transaction calls in a run.
MaxTx == 2
\* Number of acquire_lock calls in a run.
MaxOps == 4
\* Number of writes and savepoint calls in a run.
MaxStmts == 3
\* The highest max_retries a caller passes to try_execute_with_retry.
MaxRetries == 2

TxIds == 1..MaxTx
Tables == {"a", "b"}
\* The table the statements of the model address.
StmtTables == {"a"}
Levels == {"ReadCommitted", "RepeatableRead", "Serializable"}
LockTypes == {"Shared", "Exclusive"}
Names == {"s1", "s2"}
\* end_ts of a version that has not been superseded: above every timestamp.
Infinity == 2 * MaxTx + 1

VARIABLES
    next_id,              \* the id Transaction::create hands out next
    active_transactions,  \* TransactionManager.active_transactions
    lock_manager,         \* LockManager: table -> holders and mode
    wait_for,             \* DeadlockDetector: edges <<waiter, holder, table>>
    timestamp_counter,    \* MVCCManager.timestamp_counter
    read_ts,              \* MVCCManager: active tx -> read timestamp
    versions,             \* MVCCManager: key -> version chain
    savepoints,           \* SavepointManager: tx -> sequence of savepoints
    wal,                  \* WriteAheadLog: the appended entries
    reef_db,              \* the shared ReefDB: tables and storage
    ops,                  \* statements issued so far (bounds the run)
    last,                 \* the last call and what it returned
    outcome,              \* history: how each transaction stands, and when it committed
    begin_view,           \* history: what a SELECT returned at begin
    sp_history,           \* history: versions staged at each savepoint, versions undone
    sync                  \* the mutexes of the shared subsystems and the threads' positions

vars == <<next_id, active_transactions, lock_manager, wait_for, timestamp_counter,
          read_ts, versions, savepoints, wal, reef_db, ops, last, outcome, begin_view,
          sp_history,
         sync>>

\* ------------------------------------------------------------------- data
\* DataValue::Integer(n)
Integer(n) == [t |-> "Integer", v |-> n]

\* DataValue::Text, the payload a number that stands for the string.
Text(n) == [t |-> "Text", v |-> n]

\* The schema of both tables: column names; the first column is the key.
Schema == <<"id", "x", "y">>

\* The schema of each table (the column names of its ColumnDefs).
SchemaOf(table) ==
    CASE table = "t" -> <<"id", "g">>
      [] table = "u" -> <<"uid", "tid", "p">>
      [] table = "w" -> <<"wid", "tfk", "q">>
      [] OTHER -> Schema

PKs == {1, 2}

\* KeyFormat::row(table, 0, id)
KeyFormat_row(table, id) == <<table, 0, id>>

\* The tables of the query database: a base table and two tables joined to it.
QueryTables == {"t", "u", "w"}

Keys == {KeyFormat_row(tb, pk) : tb \in Tables \cup QueryTables, pk \in PKs}

\* The tables of the database handed to TransactionManager::create.
InitTables == [tb \in Tables |-> IF tb = "a" THEN << <<Integer(1), Integer(0), Integer(0)>> >> ELSE << >>]

Max(S) == CHOOSE m \in S : \A n \in S : n <= m

\* TableStorage::restore_from: the receiver takes the other state's tables.
restore_from(self, other) == other

\* A call record: operation, transaction, result and what the call reported.
NoStmt == [kind |-> "None"]

\* What try_execute_with_retry did: the results of its attempts in order and the
\* milliseconds it slept between them.
NoRetry == [max_retries |-> 0, attempts |-> << >>, slept |-> << >>]

Call(op, tx, res) ==
    [op |-> op, tx |-> tx, res |-> res, table |-> "", mode |-> "", rows |-> << >>,
     updated_count |-> 0, mvcc_err |-> "none", released |-> {}, name |-> "", state |-> << >>,
     stmt |-> NoStmt, discarded |-> {}, retry |-> NoRetry]

NoCall == Call("create", 0, "Ok")

\* A transaction's standing (none, active, committed, aborted) and, once it has
\* committed, the MVCC timestamp of its commit.
Outcome(state, commit_ts) == [state |-> state, commit_ts |-> commit_ts]

\* -------------------------------------------------------------- lock manager
\* LockManager::get_lock_holders
get_lock_holders(lm, table) == lm[table].holders

\* LockManager::has_lock
has_lock(lm, tx, table) == tx \in lm[table].holders

\* LockManager::acquire_lock: the result and the lock table after the call.
\* Shared is compatible with Shared; a holder may re-enter, and may upgrade
\* Shared to Exclusive only when it is the sole holder.
lm_acquire_lock(lm, tx, table, mode) ==
    LET l == lm[table] IN
    IF l.holders = {} THEN
        [res |-> "Ok", lm |-> [lm EXCEPT ![table] = [holders |-> {tx}, mode |-> mode]]]
    ELSE IF tx \in l.holders THEN
        IF l.mode = "Exclusive" \/ mode = "Shared" THEN [res |-> "Ok", lm |-> lm]
        ELSE IF l.holders = {tx} THEN
            [res |-> "Ok", lm |-> [lm EXCEPT ![table].mode = "Exclusive"]]
        ELSE [res |-> "LockConflict", lm |-> lm]
    ELSE IF l.mode = "Shared" /\ mode = "Shared" THEN
        [res |-> "Ok", lm |-> [lm EXCEPT ![table].holders = @ \cup {tx}]]
    ELSE [res |-> "LockConflict", lm |-> lm]

\* LockManager::release_transaction_locks
release_transaction_locks(lm, tx) ==
    [tb \in Tables |->
        LET h == lm[tb].holders \ {tx} IN
        [holders |-> h, mode |-> IF h = {} THEN "Shared" ELSE lm[tb].mode]]

\* ---------------------------------------------------------- deadlock detector
\* DeadlockDetector::add_wait
add_wait(wf, waiter, holder, table) == wf \cup {<<waiter, holder, table>>}

\* DeadlockDetector::remove_transaction: drops every edge incident to tx.
remove_transaction(wf, tx) == {e \in wf : e[1] # tx /\ e[2] # tx}

RECURSIVE ReachSet(_, _)
ReachSet(E, S) ==
    LET N == S \cup {e[2] : e \in {f \in E : f[1] \in S}} IN
    IF N = S THEN S ELSE ReachSet(E, N)

\* DeadlockDetector::detect_deadlock: the youngest (highest id) transaction on a
\* cycle of the wait-for graph over the active transactions; 0 when no cycle.
detect_deadlock(wf, active) ==
    LET E == {e \in wf : e[1] \in active /\ e[2] \in active}
        onCycle == {n \in active : n \in ReachSet(E, {e[2] : e \in {f \in E : f[1] = n}})}
    IN  IF onCycle = {} THEN 0 ELSE Max(onCycle)

\* -------------------------------------------------------------- MVCC manager
\* The MVCC state the operators below work on.
Mvcc(ts, rts, vs) == [timestamp_counter |-> ts, read_ts |-> rts, versions |-> vs]

MvccNow == Mvcc(timestamp_counter, read_ts, versions)

\* MVCCManager::is_active
is_active(m, tx) == tx \in DOMAIN m.read_ts

\* MVCCManager::begin_transaction: the read timestamp is ++timestamp_counter.
mvcc_begin_transaction(m, tx) ==
    Mvcc(m.timestamp_counter + 1,
         [t \in DOMAIN m.read_ts \cup {tx} |->
             IF t = tx THEN m.timestamp_counter + 1 ELSE m.read_ts[t]],
         m.versions)

\* A prior uncommitted version of a different live transaction on the key.
WriteConflict(m, tx, key) ==
    \E i \in DOMAIN m.versions[key] :
        LET v == m.versions[key][i] IN
        ~v.committed /\ v.tx_id # tx /\ is_active(m, v.tx_id)

\* MVCCManager::write: appends an uncommitted version that begins at the
\* writer's read timestamp, or fails with WriteConflict.
mvcc_write(m, tx, key, data) ==
    IF WriteConflict(m, tx, key) THEN [res |-> "WriteConflict", m |-> m]
    ELSE [res |-> "Ok",
          m |-> [m EXCEPT !.versions[key] =
                    Append(@, [tx_id |-> tx, begin_ts |-> m.read_ts[tx], end_ts |-> Infinity,
                               data |-> data, committed |-> FALSE])]]

\* The visibility rule: committed, begun at or before the reader's timestamp and
\* not ended by then, of another transaction; or written by the reader itself.
Visible(v, R, R_ts) ==
    \/ v.committed /\ v.begin_ts <= R_ts /\ v.end_ts > R_ts /\ v.tx_id # R
    \/ v.tx_id = R

\* Among the versions at the positions in I, the newest begin_ts wins; of two
\* versions with the same begin_ts the one appended later.  << >> when I is empty.
Newest(chain, I) ==
    IF I = {} THEN << >>
    ELSE LET i == CHOOSE k \in I : \A j \in I :
                      \/ chain[j].begin_ts < chain[k].begin_ts
                      \/ chain[j].begin_ts = chain[k].begin_ts /\ j <= k
         IN  << chain[i] >>

\* MVCCManager::read_committed: << >> is None, << v >> the version read.  The
\* system reader 0 reads the globally newest committed version.
read_committed(m, tx, key) ==
    LET chain == m.versions[key] IN
    IF tx = 0 THEN Newest(chain, {i \in DOMAIN chain : chain[i].committed})
    ELSE IF ~is_active(m, tx) THEN << >>
    ELSE Newest(chain, {i \in DOMAIN chain : Visible(chain[i], tx, m.read_ts[tx])})

\* MVCCManager::read_uncommitted: the newest version whatever its commit status.
read_uncommitted(m, key) == Newest(m.versions[key], DOMAIN m.versions[key])

\* First-committer-wins: a key the transaction wrote carries a version that
\* another transaction committed and that is newer than the transaction's snapshot.
ConcurrentWrite(m, tx) ==
    \E key \in Keys : \E i, j \in DOMAIN m.versions[key] :
        LET mine == m.versions[key][i]
            other == m.versions[key][j]
        IN  /\ mine.tx_id = tx /\ ~mine.committed
            /\ other.tx_id # tx /\ other.committed
            /\ other.begin_ts > m.read_ts[tx]

\* The chain after tx commits at timestamp cts: its versions are committed, and
\* the versions they supersede end at cts.
CommitChain(chain, tx, cts) ==
    LET mine == {i \in DOMAIN chain : chain[i].tx_id = tx /\ ~chain[i].committed} IN
    IF mine = {} THEN chain
    ELSE [i \in DOMAIN chain |->
            IF i = Max(mine) THEN [chain[i] EXCEPT !.committed = TRUE]
            ELSE IF i \in mine THEN [chain[i] EXCEPT !.committed = TRUE, !.end_ts = cts]
            ELSE IF chain[i].committed /\ chain[i].end_ts = Infinity /\ i < Max(mine)
                 THEN [chain[i] EXCEPT !.end_ts = cts]
            ELSE chain[i]]

\* MVCCManager::commit
mvcc_commit(m, tx) ==
    IF ~is_active(m, tx) THEN [res |-> "TransactionNotActive", m |-> m]
    ELSE IF ConcurrentWrite(m, tx) THEN [res |-> "SerializationFailure", m |-> m]
    ELSE [res |-> "Ok",
          m |-> Mvcc(m.timestamp_counter + 1,
                     [t \in DOMAIN m.read_ts \ {tx} |-> m.read_ts[t]],
                     [k \in Keys |-> CommitChain(m.versions[k], tx, m.timestamp_counter + 1)])]

\* MVCCManager::rollback: drops the transaction's uncommitted versions.
mvcc_rollback(m, tx) ==
    Mvcc(m.timestamp_counter,
         [t \in DOMAIN m.read_ts \ {tx} |-> m.read_ts[t]],
         [k \in Keys |-> SelectSeq(m.versions[k], LAMBDA v : v.committed \/ v.tx_id # tx)])

\* --------------------------------------------------------- savepoint manager
IndexOf(sps, name) ==
    IF \E i \in DOMAIN sps : sps[i].name = name
    THEN CHOOSE i \in DOMAIN sps : sps[i].name = name
    ELSE 0

\* SavepointManager::create_savepoint: a duplicate name overwrites.
sp_create_savepoint(sp, tx, name, state) ==
    LET i == IndexOf(sp[tx], name) IN
    IF i = 0 THEN [sp EXCEPT ![tx] = Append(@, [name |-> name, state |-> state])]
    ELSE [sp EXCEPT ![tx][i].state = state]

\* SavepointManager::rollback_to_savepoint: the snapshot of the name; the
\* savepoints created after it are discarded.
sp_rollback_to_savepoint(sp, tx, name) ==
    LET i == IndexOf(sp[tx], name) IN
    IF i = 0 THEN [res |-> "SavepointNotFound", sp |-> sp, state |-> << >>]
    ELSE [res |-> "Ok", sp |-> [sp EXCEPT ![tx] = SubSeq(@, 1, i)], state |-> sp[tx][i].state]

\* SavepointManager::release_savepoint: discards the one named savepoint.
sp_release_savepoint(sp, tx, name) ==
    LET i == IndexOf(sp[tx], name) IN
    IF i = 0 THEN [res |-> "SavepointNotFound", sp |-> sp]
    ELSE [res |-> "Ok",
          sp |-> [sp EXCEPT ![tx] = SubSeq(@, 1, i - 1) \o SubSeq(@, i + 1, Len(@))]]

\* SavepointManager::clear_transaction_savepoints
clear_transaction_savepoints(sp, tx) == [sp EXCEPT ![tx] = << >>]

\* ---------------------------------------------------- WAL and the Transaction
\* WriteAheadLog::append_entry
append_entry(w, tx, operation) == Append(w, [transaction_id |-> tx, operation |-> operation])

\* Transaction::create: the working copy is a clone of the database; the ACID
\* helper keeps the tables at start as the committed snapshot.
Transaction_create(db, isolation_level) ==
    [isolation_level |-> isolation_level, tables |-> db.tables, storage |-> db.storage,
     snapshot |-> db.tables]

\* Transaction::get_table_state
get_table_state(transaction) == transaction.tables

\* Transaction::restore_table_state: the working copy becomes the given state.
restore_table_state(transaction, state) ==
    [transaction EXCEPT !.tables = state, !.storage = state]

\* Transaction::execute_statement for INSERT: the row goes to the working copy.
Transaction_insert(transaction, table, row) ==
    [transaction EXCEPT !.tables[table] = Append(@, row), !.storage[table] = Append(@, row)]

\* Transaction::commit: the working copy is published to the database.
Transaction_commit(transaction, db) ==
    [tables |-> restore_from(db.tables, transaction.tables), storage |-> transaction.storage]

\* Transaction::rollback: the working copy is discarded.
Transaction_rollback(transaction, db) == db

\* -------------------------------------------------------- statement executor
\* schema.iter().position(|c| c.name == name): 0 when the column is missing.
position(schema, name) ==
    IF \E i \in DOMAIN schema : schema[i] = name
    THEN CHOOSE i \in DOMAIN schema : schema[i] = name /\ \A j \in 1..(i - 1) : schema[j] # name
    ELSE 0

NoWhere == [type |-> "None"]

Regular(table, col_name, value) ==
    [type |-> "Regular", table |-> table, col_name |-> col_name, operator |-> "=", value |-> value]

RECURSIVE evaluate_where_clause(_, _, _, _)
evaluate_where_clause(where_clause, row_data, schema, table_name) ==
    CASE where_clause.type = "Regular" ->
            LET idx == position(schema, where_clause.col_name) IN
            IF idx # 0 THEN row_data[idx] = where_clause.value ELSE FALSE
      [] where_clause.type = "FTS" -> FALSE
      [] where_clause.type = "And" ->
            /\ evaluate_where_clause(where_clause.left, row_data, schema, table_name)
            /\ evaluate_where_clause(where_clause.right, row_data, schema, table_name)
      [] where_clause.type = "Or" ->
            \/ evaluate_where_clause(where_clause.left, row_data, schema, table_name)
            \/ evaluate_where_clause(where_clause.right, row_data, schema, table_name)

\* The tuple the UPDATE writes for a matched row: the row read from the working
\* copy's storage with the SET columns replaced.
RECURSIVE new_data(_, _, _, _)
new_data(row, schema, updates, i) ==
    IF i > Len(updates) THEN row
    ELSE LET col_idx == position(schema, updates[i][1])
             r == IF col_idx # 0 THEN [row EXCEPT ![col_idx] = updates[i][2]] ELSE row
         IN  new_data(r, schema, updates, i + 1)

\* The row loop of the Update branch, from row i on: rows with a non-integer key
\* are skipped; the first failing write ends the statement with its error.
RECURSIVE UpdateRows(_, _, _, _, _, _, _, _)
UpdateRows(m, tx, table, rows, i, updates, where_clause, updated_count) ==
    IF i > Len(rows) THEN [res |-> "Ok", m |-> m, updated_count |-> updated_count]
    ELSE LET row == rows[i] IN
         IF row[1].t # "Integer"
         THEN UpdateRows(m, tx, table, rows, i + 1, updates, where_clause, updated_count)
         ELSE LET key == KeyFormat_row(table, row[1].v)
                  should_update == IF where_clause.type # "None"
                                   THEN evaluate_where_clause(where_clause, row, SchemaOf(table), table)
                                   ELSE TRUE
              IN  IF ~should_update
                  THEN UpdateRows(m, tx, table, rows, i + 1, updates, where_clause, updated_count)
                  ELSE LET w == mvcc_write(m, tx, key, new_data(row, SchemaOf(table), updates, 1)) IN
                       IF w.res # "Ok"
                       THEN [res |-> w.res, m |-> w.m, updated_count |-> updated_count]
                       ELSE UpdateRows(w.m, tx, table, rows, i + 1, updates, where_clause,
                                       updated_count + 1)

\* Option<usize>: << >> is None, << n >> is Some(n) (n counts from 1 here).
Some(idx) == IF idx = 0 THEN << >> ELSE << idx >>

\* ColumnValuePair; table_name "" when the column was written unqualified.
Pair(table_name, column_name) == [table_name |-> table_name, column_name |-> column_name]

\* JoinClause: the joined table and the two sides of its ON condition.
Join(table, left_pair, right_pair) == [table |-> table, on |-> <<left_pair, right_pair>>]

\* evaluate_join_condition, lines 392-420: where one side of the condition finds
\* its value, << >> when it finds none.
JoinValue(pair, left_data, left_schema, right_data, right_schema, left_table, right_table) ==
    IF pair.table_name = "" \/ pair.table_name = left_table
    THEN LET idx == position(left_schema, pair.column_name) IN
         IF idx # 0 THEN << left_data[idx] >> ELSE << >>
    ELSE IF pair.table_name = right_table
    THEN LET idx == position(right_schema, pair.column_name) IN
         IF idx # 0 THEN << right_data[idx] >> ELSE << >>
    ELSE << >>

\* evaluate_join_condition with a side that finds no value counted as a match.
evaluate_join_condition_lenient(condition, left_data, left_schema, right_data, right_schema, left_table, right_table) ==
    LET left_value == JoinValue(condition[1], left_data, left_schema, right_data,
                                right_schema, left_table, right_table)
        right_value == JoinValue(condition[2], left_data, left_schema, right_data,
                                 right_schema, left_table, right_table)
    IN  IF left_value # << >> /\ right_value # << >>
        THEN left_value[1] = right_value[1]
        ELSE TRUE

evaluate_join_condition(condition, left_data, left_schema, right_data, right_schema, left_table, right_table) ==
    LET left_value == JoinValue(condition[1], left_data, left_schema, right_data,
                                right_schema, left_table, right_table)
        right_value == JoinValue(condition[2], left_data, left_schema, right_data,
                                 right_schema, left_table, right_table)
    IN  IF left_value # << >> /\ right_value # << >>
        THEN left_value[1] = right_value[1]
        ELSE FALSE

\* Lines 679-685: where the columns of table clause_table start in the combined
\* tuple and how many they are, looking through the joins from join j on.
RECURSIVE SchemaSection(_, _, _, _)
SchemaSection(clause_table, joins, j, start) ==
    IF j > Len(joins) THEN [start |-> start, len |-> 0]
    ELSE IF joins[j].table = clause_table
         THEN [start |-> start, len |-> Len(SchemaOf(joins[j].table))]
         ELSE SchemaSection(clause_table, joins, j + 1, start + Len(SchemaOf(joins[j].table)))

\* Lines 663-716: the WHERE clause on a tuple combined by a join.  start counts
\* the columns before the section, so the section is columns start+1..end.
should_include(where_clause, combined_row, combined_schema, table_name, schema, joins) ==
    CASE where_clause.type = "None" -> TRUE
      [] where_clause.type = "Regular" ->
            LET col_idx ==
                  IF where_clause.table # ""
                  THEN LET sec == IF where_clause.table = table_name
                                  THEN [start |-> 0, len |-> Len(schema)]
                                  ELSE SchemaSection(where_clause.table, joins, 1, Len(schema))
                       IN  IF sec.start >= Len(combined_schema) THEN << >>
                           ELSE LET end == IF sec.start + sec.len < Len(combined_schema)
                                           THEN sec.start + sec.len ELSE Len(combined_schema)
                                    pos == position(SubSeq(combined_schema, sec.start + 1, end),
                                                    where_clause.col_name)
                                IN  IF pos = 0 THEN << >> ELSE << sec.start + pos >>
                  ELSE Some(position(combined_schema, where_clause.col_name))
            IN  IF col_idx # << >> THEN combined_row[col_idx[1]] = where_clause.value ELSE FALSE
      [] where_clause.type = "FTS" -> FALSE
      [] OTHER -> evaluate_where_clause(where_clause, combined_row, combined_schema, table_name)

\* Lines 649-722, the loop over joined_rows from row r on: the tuples that one
\* partial tuple yields with the rows of one joined table.
RECURSIVE JoinRows(_, _, _, _, _, _, _, _)
JoinRows(curr, join, joined_rows, r, where_clause, table_name, schema, joins) ==
    IF r > Len(joined_rows) THEN << >>
    ELSE LET joined_schema == SchemaOf(join.table)
             should_join == evaluate_join_condition(join.on, curr.row, curr.schema,
                                                    joined_rows[r], joined_schema,
                                                    table_name, join.table)
             combined_row == curr.row \o joined_rows[r]
             combined_schema == curr.schema \o joined_schema
             here == IF should_join /\ should_include(where_clause, combined_row,
                                                       combined_schema, table_name, schema, joins)
                     THEN << [row |-> combined_row, schema |-> combined_schema] >>
                     ELSE << >>
         IN  here \o JoinRows(curr, join, joined_rows, r + 1, where_clause, table_name,
                               schema, joins)

\* Lines 648-722, the loop over matched_rows from tuple c on.
RECURSIVE JoinMatched(_, _, _, _, _, _, _, _)
JoinMatched(matched_rows, c, join, joined_rows, where_clause, table_name, schema, joins) ==
    IF c > Len(matched_rows) THEN << >>
    ELSE JoinRows(matched_rows[c], join, joined_rows, 1, where_clause, table_name, schema, joins)
         \o JoinMatched(matched_rows, c + 1, join, joined_rows, where_clause, table_name,
                         schema, joins)

\* Lines 643-724, the loop over the joins from join j on: the tuples one base
\* row yields.  storage is the transaction's copy of the storage.
RECURSIVE JoinAll(_, _, _, _, _, _, _)
JoinAll(matched_rows, j, joins, storage, where_clause, table_name, schema) ==
    IF j > Len(joins) THEN matched_rows
    ELSE JoinAll(JoinMatched(matched_rows, 1, joins[j], storage[joins[j].table],
                             where_clause, table_name, schema, joins),
                 j + 1, joins, storage, where_clause, table_name, schema)

\* ReadRow with the ReadCommitted fallback returning what read_uncommitted found.
ReadRow_dirty(m, tx, isolation_level, key, row) ==
    LET rc == read_committed(m, tx, key)
        ru == read_uncommitted(m, key)
        stored == [data |-> row, writer |-> 0, committed |-> TRUE]
    IN  IF rc # << >>
        THEN [data |-> rc[1].data, writer |-> rc[1].tx_id, committed |-> rc[1].committed]
        ELSE IF isolation_level = "ReadCommitted" /\ ru # << >>
             THEN [data |-> ru[1].data, writer |-> ru[1].tx_id, committed |-> ru[1].committed]
             ELSE stored

\* What the Select branch reads for one stored row: the version read_committed
\* returns, else the stored row (for ReadCommitted after a look at
\* read_uncommitted, whose data is not used).  writer is 0 for a stored row.
ReadRow(m, tx, isolation_level, key, row) ==
    LET rc == read_committed(m, tx, key)
        stored == [data |-> row, writer |-> 0, committed |-> TRUE]
    IN  IF rc # << >>
        THEN [data |-> rc[1].data, writer |-> rc[1].tx_id, committed |-> rc[1].committed]
        ELSE IF isolation_level = "ReadCommitted"
             THEN (IF read_uncommitted(m, key) # << >> THEN stored ELSE stored)
             ELSE stored

\* The row loop of the Select branch (no join, all columns), from row i on.
RECURSIVE SelectRows(_, _, _, _, _, _)
SelectRows(m, tx, isolation_level, table, rows, i) ==
    IF i > Len(rows) THEN << >>
    ELSE IF rows[i][1].t # "Integer" THEN SelectRows(m, tx, isolation_level, table, rows, i + 1)
    ELSE LET r == ReadRow(m, tx, isolation_level, KeyFormat_row(table, rows[i][1].v), rows[i]) IN
         << [i |-> i - 1, data |-> r.data, writer |-> r.writer, committed |-> r.committed] >>
            \o SelectRows(m, tx, isolation_level, table, rows, i + 1)

\* The row loop of execute_statement_committed: only rows with a committed
\* version are returned, read as the system reader 0.
RECURSIVE CommittedRows(_, _, _, _, _)
CommittedRows(m, table, rows, i, where_clause) ==
    IF i > Len(rows) THEN << >>
    ELSE IF rows[i][1].t # "Integer" THEN CommittedRows(m, table, rows, i + 1, where_clause)
    ELSE LET rc == read_committed(m, 0, KeyFormat_row(table, rows[i][1].v))
             should_include_row ==
                 IF where_clause.type # "None"
                 THEN evaluate_where_clause(where_clause, rc[1].data, SchemaOf(table), table)
                 ELSE TRUE
         IN  (IF rc # << >> /\ should_include_row
              THEN << [i |-> i - 1, data |-> rc[1].data, writer |-> rc[1].tx_id,
                       committed |-> rc[1].committed] >>
              ELSE << >>) \o CommittedRows(m, table, rows, i + 1, where_clause)

\* Lines 642-741: the result tuples of the base rows from row n on, each base
\* row joined with the joined tables in turn.
RECURSIVE JoinedResults(_, _, _, _, _)
JoinedResults(base_rows, n, stmt, storage, schema) ==
    IF n > Len(base_rows) THEN << >>
    ELSE LET matched_rows == JoinAll(<< [row |-> base_rows[n].data, schema |-> schema] >>, 1,
                                     stmt.joins, storage, stmt.where_clause, stmt.table, schema)
         IN  [k \in 1..Len(matched_rows) |->
                 [base_rows[n] EXCEPT !.data = matched_rows[k].row]]
             \o JoinedResults(base_rows, n + 1, stmt, storage, schema)

\* The first join of the list on table, 0 when there is none.
FirstJoin(joins, table) ==
    IF \E j \in DOMAIN joins : joins[j].table = table
    THEN CHOOSE j \in DOMAIN joins :
            joins[j].table = table /\ \A k \in 1..(j - 1) : joins[k].table # table
    ELSE 0

\* The first join of the list whose table has a column col_name, 0 when none.
FirstJoinWith(joins, col_name) ==
    IF \E j \in DOMAIN joins : position(SchemaOf(joins[j].table), col_name) # 0
    THEN CHOOSE j \in DOMAIN joins :
            /\ position(SchemaOf(joins[j].table), col_name) # 0
            /\ \A k \in 1..(j - 1) : position(SchemaOf(joins[k].table), col_name) = 0
    ELSE 0

\* sort_results, lines 448-472: the place in the result tuple where an ORDER BY
\* column is read, << >> when the column is not found.
order_col_idx(order_clause, schema, table_name, joins) ==
    IF order_clause.table # ""
    THEN IF order_clause.table = table_name
         THEN Some(position(schema, order_clause.name))
         ELSE LET j == FirstJoin(joins, order_clause.table)
                  pos == IF j = 0 THEN 0
                         ELSE position(SchemaOf(joins[j].table), order_clause.name)
              IN  IF pos = 0 THEN << >> ELSE << pos + Len(schema) >>
    ELSE IF position(schema, order_clause.name) # 0
         THEN << position(schema, order_clause.name) >>
         ELSE LET j == FirstJoinWith(joins, order_clause.name) IN
              IF j = 0 THEN << >>
              ELSE << position(SchemaOf(joins[j].table), order_clause.name)
                      + Len(SchemaOf(joins[j].table)) >>

\* The derived order of DataValue: by variant, then by payload.
data_cmp(a, b) ==
    LET rank(x) == IF x.t = "Integer" THEN 0 ELSE 1 IN
    IF rank(a) < rank(b) \/ (rank(a) = rank(b) /\ a.v < b.v) THEN "Less"
    ELSE IF a = b THEN "Equal" ELSE "Greater"

reverse(cmp) == CASE cmp = "Less" -> "Greater" [] cmp = "Greater" -> "Less" [] OTHER -> cmp

\* order_cmp with the direction of the clause ignored.
order_cmp_ascending(cmp, direction) == cmp

\* sort_results, lines 478-481: the comparison in the direction of the clause.
order_cmp(cmp, direction) == IF direction = "Desc" THEN reverse(cmp) ELSE cmp

\* sort_results, lines 443-487: the comparator, from ORDER BY clause c on.
RECURSIVE compare_rows(_, _, _, _, _, _, _)
compare_rows(a, b, order_by, c, schema, table_name, joins) ==
    IF c > Len(order_by) THEN "Equal"
    ELSE LET col_idx == order_col_idx(order_by[c], schema, table_name, joins)
             cmp == IF col_idx # << >> /\ col_idx[1] <= Len(a.data) /\ col_idx[1] <= Len(b.data)
                    THEN data_cmp(a.data[col_idx[1]], b.data[col_idx[1]])
                    ELSE "Equal"
         IN  IF cmp # "Equal" THEN order_cmp(cmp, order_by[c].direction)
             ELSE compare_rows(a, b, order_by, c + 1, schema, table_name, joins)

\* The stable sort of sort_by: row x goes before the first row greater than it.
RECURSIVE stable_insert(_, _, _, _, _, _)
stable_insert(sorted, x, order_by, schema, table_name, joins) ==
    IF sorted = << >> THEN << x >>
    ELSE IF compare_rows(Head(sorted), x, order_by, 1, schema, table_name, joins) = "Greater"
         THEN << x >> \o sorted
         ELSE << Head(sorted) >>
              \o stable_insert(Tail(sorted), x, order_by, schema, table_name, joins)

RECURSIVE sort_from(_, _, _, _, _, _, _)
sort_from(sorted, results, n, order_by, schema, table_name, joins) ==
    IF n > Len(results) THEN sorted
    ELSE sort_from(stable_insert(sorted, results[n], order_by, schema, table_name, joins),
                   results, n + 1, order_by, schema, table_name, joins)

sort_results(results, order_by, schema, table_name, joins) ==
    IF order_by = << >> \/ results = << >> THEN results
    ELSE sort_from(<< >>, results, 1, order_by, schema, table_name, joins)

\* ------------------------------------------------------- transaction manager
\* The manager's map and the subsystems it shares, as one value.
Manager ==
    [at |-> active_transactions, m |-> MvccNow, lm |-> lock_manager, wf |-> wait_for,
     sp |-> savepoints, db |-> reef_db, wal |-> wal]

\* The next state holds the manager value s.
Install(s) ==
    /\ active_transactions' = s.at
    /\ timestamp_counter' = s.m.timestamp_counter
    /\ read_ts' = s.m.read_ts
    /\ versions' = s.m.versions
    /\ lock_manager' = s.lm
    /\ wait_for' = s.wf
    /\ savepoints' = s.sp
    /\ reef_db' = s.db
    /\ wal' = s.wal

\* HashMap::insert and HashMap::remove on active_transactions.
Put(at, id, transaction) ==
    [t \in DOMAIN at \cup {id} |-> IF t = id THEN transaction ELSE at[t]]

Drop(at, id) == [t \in DOMAIN at \ {id} |-> at[t]]

NotFound == "Other(Transaction not found)"

\* rollback_transaction_on without the look at the map: Ok for any id.
rollback_transaction_on_unchecked(s, id) ==
    [res |-> "Ok",
     s |-> [s EXCEPT !.at = Drop(s.at, id),
                     !.m = mvcc_rollback(s.m, id),
                     !.lm = release_transaction_locks(s.lm, id),
                     !.wf = remove_transaction(s.wf, id),
                     !.sp = clear_transaction_savepoints(s.sp, id)]]

\* rollback_transaction on the manager value s.
rollback_transaction_on(s, id) ==
    IF id \notin DOMAIN s.at THEN [res |-> NotFound, s |-> s]
    ELSE [res |-> "Ok",
          s |-> [s EXCEPT !.at = Drop(s.at, id),
                          !.db = Transaction_rollback(s.at[id], s.db),
                          !.m = mvcc_rollback(s.m, id),
                          !.lm = release_transaction_locks(s.lm, id),
                          !.wf = remove_transaction(s.wf, id),
                          !.sp = clear_transaction_savepoints(s.sp, id)]]

\* commit_release with the release of the locks left out.
commit_release_skipped(s, id) == [s EXCEPT !.wf = remove_transaction(s.wf, id)]

\* commit_transaction, lines 163-170: locks released, wait-for edges dropped.
commit_release(s, id) ==
    [s EXCEPT !.lm = release_transaction_locks(s.lm, id),
              !.wf = remove_transaction(s.wf, id)]

\* commit_transaction, lines 147-151: the MVCC commit failed with error e on the
\* manager value s, from whose map id was removed at line 119.
commit_mvcc_failed(s, id, e) ==
    LET rb == rollback_transaction_on(s, id) IN
    IF rb.res # "Ok" THEN [res |-> rb.res, mvcc_err |-> e, s |-> rb.s]
    ELSE [res |-> e, mvcc_err |-> e, s |-> rb.s]

\* commit_remove with the transaction left in the map.
commit_remove_skipped(s, id) == s

\* commit_transaction, lines 119-120: the transaction leaves the map first.
commit_remove(s, id) == [s EXCEPT !.at = Drop(s.at, id)]

\* commit_wal with the append left out.
commit_wal_skipped(s, id) == s

\* commit_transaction, lines 129-140: the Commit entry is appended to the WAL.
commit_wal(s, id) == [s EXCEPT !.wal = append_entry(s.wal, id, "Commit")]

\* commit_transaction on the manager value s; wal_fails: the WAL append fails.
commit_transaction_on(s, id, wal_fails) ==
    IF id \notin DOMAIN s.at THEN [res |-> NotFound, mvcc_err |-> "none", s |-> s]
    ELSE
      LET transaction == s.at[id]
          s1 == commit_remove(s, id)
          final_state == get_table_state(transaction)
      IN  IF wal_fails THEN [res |-> "WalIoError", mvcc_err |-> "none", s |-> s1]
          ELSE
            LET s2 == commit_wal(s1, id)
                commit_result == mvcc_commit(s2.m, id)
            IN  IF commit_result.res # "Ok"
                THEN commit_mvcc_failed(s2, id, commit_result.res)
                ELSE
                  LET db1 == [s2.db EXCEPT !.tables = restore_from(@, final_state)]
                      s3 == [s2 EXCEPT !.m = commit_result.m,
                                       !.db = Transaction_commit(transaction, db1)]
                  IN  [res |-> "Ok", mvcc_err |-> "none", s |-> commit_release(s3, id)]

\* commit_transaction on the manager value s with a step after the MVCC commit
\* failing: the database mutex at lines 154-155 (step "database") or
\* Transaction::commit at line 161 (step "commit"), which comes after the tables
\* of the database were overwritten at line 158.
commit_transaction_failing_on(s, id, step) ==
    IF id \notin DOMAIN s.at THEN [res |-> NotFound, mvcc_err |-> "none", s |-> s]
    ELSE
      LET transaction == s.at[id]
          final_state == get_table_state(transaction)
          s2 == commit_wal(commit_remove(s, id), id)
          commit_result == mvcc_commit(s2.m, id)
      IN  IF commit_result.res # "Ok"
          THEN commit_mvcc_failed(s2, id, commit_result.res)
          ELSE
            LET s3 == [s2 EXCEPT !.m = commit_result.m] IN
            IF step = "database"
            THEN [res |-> "Other(Failed to acquire database lock)", mvcc_err |-> "none", s |-> s3]
            ELSE [res |-> "CommitFailed", mvcc_err |-> "none",
                  s |-> [s3 EXCEPT !.db.tables = restore_from(@, final_state)]]

\* The orders in which the holders of a lock may be visited.
Orders(S) ==
    {o \in [1..Cardinality(S) -> S] : \A i, j \in 1..Cardinality(S) : o[i] = o[j] => i = j}

\* acquire_lock, lines 219-233: a wait-for edge to each holder in turn, with a
\* deadlock check after each; stops when the requester is the victim.
RECURSIVE WaitLoop(_, _, _, _, _, _)
WaitLoop(wf, active, transaction_id, table_name, ord, i) ==
    IF i > Len(ord) THEN [deadlock |-> FALSE, wf |-> wf]
    ELSE IF ord[i] = transaction_id
         THEN WaitLoop(wf, active, transaction_id, table_name, ord, i + 1)
    ELSE LET wf1 == add_wait(wf, transaction_id, ord[i], table_name)
             victim_tx == detect_deadlock(wf1, active)
         IN  IF victim_tx # 0 /\ victim_tx = transaction_id
             THEN [deadlock |-> TRUE, wf |-> remove_transaction(wf1, transaction_id)]
             ELSE WaitLoop(wf1, active, transaction_id, table_name, ord, i + 1)

\* acquire_lock_grant with the lock manager's refusal ignored: the requester is
\* recorded as a holder in the requested mode.
acquire_lock_grant_unchecked(s, transaction_id, table_name, lock_type) ==
    [res |-> "Ok",
     s |-> [s EXCEPT !.lm[table_name] = [holders |-> @.holders \cup {transaction_id},
                                         mode |-> lock_type],
                     !.wf = remove_transaction(s.wf, transaction_id)]]

\* acquire_lock_grant with the requester's wait-for edges kept when the lock
\* manager refuses.
acquire_lock_grant_waiting(s, transaction_id, table_name, lock_type) ==
    LET a == lm_acquire_lock(s.lm, transaction_id, table_name, lock_type) IN
    [res |-> a.res,
     s |-> [s EXCEPT !.lm = a.lm,
                     !.wf = IF a.res = "Ok" THEN remove_transaction(s.wf, transaction_id)
                            ELSE s.wf]]

\* acquire_lock, lines 236-248: the lock manager decides; the requester's
\* wait-for edges are removed whatever it says.
acquire_lock_grant(s, transaction_id, table_name, lock_type) ==
    LET a == lm_acquire_lock(s.lm, transaction_id, table_name, lock_type) IN
    [res |-> a.res,
     s |-> [s EXCEPT !.lm = a.lm, !.wf = remove_transaction(s.wf, transaction_id)]]

\* acquire_lock_on with the edges added at lines 219-233 left in the graph when
\* the call returns.
acquire_lock_on_keeping_edges(s, transaction_id, table_name, lock_type, ord) ==
    LET lock_holders == get_lock_holders(s.lm, table_name)
        waits == IF lock_holders # {} /\ ~has_lock(s.lm, transaction_id, table_name)
                 THEN WaitLoop(s.wf, DOMAIN s.at, transaction_id, table_name, ord, 1)
                 ELSE [deadlock |-> FALSE, wf |-> s.wf]
        a == lm_acquire_lock(s.lm, transaction_id, table_name, lock_type)
    IN  IF waits.deadlock THEN [res |-> "Deadlock", s |-> [s EXCEPT !.wf = waits.wf]]
        ELSE [res |-> a.res, s |-> [s EXCEPT !.lm = a.lm, !.wf = waits.wf]]

\* acquire_lock on the manager value s, visiting the holders in order ord.
acquire_lock_on(s, transaction_id, table_name, lock_type, ord) ==
    LET lock_holders == get_lock_holders(s.lm, table_name)
        waits == IF lock_holders # {} /\ ~has_lock(s.lm, transaction_id, table_name)
                 THEN WaitLoop(s.wf, DOMAIN s.at, transaction_id, table_name, ord, 1)
                 ELSE [deadlock |-> FALSE, wf |-> s.wf]
    IN  IF waits.deadlock THEN [res |-> "Deadlock", s |-> [s EXCEPT !.wf = waits.wf]]
        ELSE acquire_lock_grant([s EXCEPT !.wf = waits.wf], transaction_id, table_name, lock_type)

\* rollback_restore with the working copy taken from the shared database.
rollback_restore_from_db(s, transaction_id, restored_state) ==
    [s EXCEPT !.at[transaction_id] = restore_table_state(@, s.db.tables),
              !.db = [tables |-> restore_from(s.db.tables, restored_state),
                      storage |-> [tb \in Tables |-> restored_state[tb]]]]

\* rollback_to_savepoint, lines 283-294: the savepoint's state becomes the
\* transaction's working copy and is written to the shared tables and storage.
rollback_restore(s, transaction_id, restored_state) ==
    [s EXCEPT !.at[transaction_id] = restore_table_state(@, restored_state),
              !.db = [tables |-> restore_from(s.db.tables, restored_state),
                      storage |-> [tb \in Tables |-> restored_state[tb]]]]

\* rollback_refused with a Rollback entry written to the WAL all the same.
rollback_refused_logged(s, transaction_id, res) ==
    [res |-> res, s |-> [s EXCEPT !.wal = append_entry(s.wal, transaction_id, "Rollback")],
     state |-> << >>]

\* rollback_to_savepoint, lines 279-281 when the savepoint manager fails: the
\* error is returned and nothing else is done.
rollback_refused(s, transaction_id, res) == [res |-> res, s |-> s, state |-> << >>]

\* rollback_found with the savepoints left as they were.
rollback_found_keeping(s, transaction_id, r) == s

\* rollback_to_savepoint, lines 279-281 when the savepoint manager succeeds: the
\* manager has discarded the savepoints created after the one named.
rollback_found(s, transaction_id, r) == [s EXCEPT !.sp = r.sp]

\* rollback_to_savepoint on the manager value s; wal_fails: the WAL append fails.
rollback_to_savepoint_on(s, transaction_id, name, wal_fails) ==
    IF transaction_id \notin DOMAIN s.at
    THEN [res |-> "TransactionNotFound", s |-> s, state |-> << >>]
    ELSE
      LET r == sp_rollback_to_savepoint(s.sp, transaction_id, name) IN
      IF r.res # "Ok" THEN rollback_refused(s, transaction_id, r.res)
      ELSE
        LET restored_state == r.state
            s1 == rollback_restore(rollback_found(s, transaction_id, r), transaction_id,
                                   restored_state)
        IN  IF wal_fails THEN [res |-> "WalIoError", s |-> s1, state |-> << >>]
            ELSE [res |-> "Ok",
                  s |-> [s1 EXCEPT !.wal = append_entry(s1.wal, transaction_id, "Rollback")],
                  state |-> restored_state]

\* The data of the rows a SELECT returned.
Data(rows) == [i \in DOMAIN rows |-> rows[i].data]

NoView == [tb \in StmtTables |-> << >>]

\* What SELECT * returns to transaction tx, on each table, in manager value s.
View(s, tx) ==
    [tb \in StmtTables |->
        IF tb \in DOMAIN s.at[tx].storage
        THEN Data(SelectRows(s.m, tx, s.at[tx].isolation_level, tb, s.at[tx].storage[tb], 1))
        ELSE << >>]

\* begin_register with the call to the MVCC manager left out.
begin_register_skipped(m, id) == m

\* begin_transaction, lines 109-112: the new transaction gets its MVCC read
\* timestamp.
begin_register(m, id) == mvcc_begin_transaction(m, id)

\* ------------------------------------------------------ mutexes and threads
\* The Arc<Mutex<..>> fields of the manager, shared by its clones.
Mutexes ==
    {"reef_db", "mvcc_manager", "lock_manager", "deadlock_detector", "savepoint_manager", "wal"}

\* A guard is taken by lock() and given back when it is dropped.
Lock(m) == <<"lock", m>>

Unlock(m) == <<"unlock", m>>

\* begin_transaction: the database guard (103) lives to the return, the MVCC
\* guard (110-112) is a temporary.
begin_transaction_mutexes ==
    <<Lock("reef_db"), Lock("mvcc_manager"), Unlock("mvcc_manager"), Unlock("reef_db")>>

\* commit_transaction: WAL (138-140) and MVCC (143-145) guards are temporaries;
\* the database guard (154) is held over the lock manager (164-166) and the
\* deadlock detector (168-170).
commit_transaction_mutexes ==
    <<Lock("wal"), Unlock("wal"), Lock("mvcc_manager"), Unlock("mvcc_manager"),
      Lock("reef_db"), Lock("lock_manager"), Unlock("lock_manager"),
      Lock("deadlock_detector"), Unlock("deadlock_detector"), Unlock("reef_db")>>

\* rollback_transaction: the database guard (179) is held over the MVCC manager
\* (185-187), the lock manager (190-192), the deadlock detector (194-196) and
\* the savepoint manager (199-201).
rollback_transaction_mutexes ==
    <<Lock("reef_db"), Lock("mvcc_manager"), Unlock("mvcc_manager"),
      Lock("lock_manager"), Unlock("lock_manager"),
      Lock("deadlock_detector"), Unlock("deadlock_detector"),
      Lock("savepoint_manager"), Unlock("savepoint_manager"), Unlock("reef_db")>>

\* commit_transaction whose MVCC commit failed: the rollback of lines 147-150
\* runs after the MVCC guard was dropped, and returns at 176-177.
commit_failed_mutexes ==
    <<Lock("wal"), Unlock("wal"), Lock("mvcc_manager"), Unlock("mvcc_manager")>>

\* acquire_lock: the lock manager guard (207) and then the deadlock detector
\* guard (211), both held to the return.
acquire_lock_mutexes ==
    <<Lock("lock_manager"), Lock("deadlock_detector"), Unlock("deadlock_detector"),
      Unlock("lock_manager")>>

\* rollback_to_savepoint: the savepoint manager guard (279-281) is a temporary;
\* the database guard (287) is held over the WAL append (305-307).
rollback_to_savepoint_mutexes ==
    <<Lock("savepoint_manager"), Unlock("savepoint_manager"),
      Lock("reef_db"), Lock("wal"), Unlock("wal"), Unlock("reef_db")>>

\* create_savepoint (263-265) and release_savepoint (320-323).
savepoint_mutexes == <<Lock("savepoint_manager"), Unlock("savepoint_manager")>>

\* execute_statement, Update (523) and Select (609) branches: the MVCC guard,
\* taken after the transaction guard was dropped.
execute_statement_mutexes == <<Lock("mvcc_manager"), Unlock("mvcc_manager")>>

\* execute_statement_committed with the MVCC guard taken before the database
\* guard.
execute_statement_committed_mvcc_first ==
    <<Lock("mvcc_manager"), Lock("reef_db"), Unlock("reef_db"), Unlock("mvcc_manager")>>

\* execute_statement_committed: the database guard (854) and under it the MVCC
\* guard (859).
execute_statement_committed_mutexes ==
    <<Lock("reef_db"), Lock("mvcc_manager"), Unlock("mvcc_manager"), Unlock("reef_db")>>

\* What the public operations do to the mutexes.
MutexScripts ==
    {begin_transaction_mutexes, commit_transaction_mutexes, commit_failed_mutexes,
     rollback_transaction_mutexes, acquire_lock_mutexes, rollback_to_savepoint_mutexes,
     savepoint_mutexes, execute_statement_mutexes, execute_statement_committed_mutexes}

\* No mutex is held and no thread is inside a call.
NoSync ==
    [owner |-> [m \in Mutexes |-> 0],
     run |-> [t \in TxIds |-> [script |-> << >>, pc |-> 1]]]

\* The step thread t is at; << >> when it is not inside a call.
NextStep(t) ==
    IF sync.run[t].pc <= Len(sync.run[t].script)
    THEN sync.run[t].script[sync.run[t].pc] ELSE << >>

\* Thread t has made its step: it leaves the call after the last one.
Advance(run, t) ==
    IF run[t].pc = Len(run[t].script)
    THEN [run EXCEPT ![t] = [script |-> << >>, pc |-> 1]]
    ELSE [run EXCEPT ![t].pc = @ + 1]

\* ------------------------------------------------------------------ actions
begin_transaction(isolation_level) ==
    /\ next_id <= MaxTx
    /\ LET id == next_id
           transaction == Transaction_create(reef_db, isolation_level)
           s == [Manager EXCEPT !.m = begin_register(@, id),
                                !.at = Put(@, id, transaction)]
       IN  /\ Install(s)
           /\ next_id' = next_id + 1
           /\ last' = Call("begin_transaction", id, "Ok")
           /\ outcome' = [outcome EXCEPT ![id] = Outcome("active", 0)]
           /\ begin_view' = [begin_view EXCEPT ![id] = View(s, id)]
    /\ UNCHANGED <<sync, ops, sp_history>>

\* How the transaction stands after commit_transaction returned res at MVCC
\* timestamp ts: a transaction that was in the map has ended, committed or not.
Ended(id, res, was_active, ts) ==
    IF ~was_active THEN outcome
    ELSE [outcome EXCEPT ![id] = IF res = "Ok" THEN Outcome("committed", ts)
                                 ELSE Outcome("aborted", 0)]

commit_transaction(id, wal_fails) ==
    LET r == commit_transaction_on(Manager, id, wal_fails) IN
    /\ Install(r.s)
    /\ last' = [Call("commit_transaction", id, r.res) EXCEPT
                   !.mvcc_err = r.mvcc_err,
                   !.released = {tb \in Tables : id \in lock_manager[tb].holders
                                                 /\ lock_manager[tb].mode = "Exclusive"}]
    /\ outcome' = Ended(id, r.res, id \in DOMAIN active_transactions,
                        r.s.m.timestamp_counter)
    /\ begin_view' = [begin_view EXCEPT ![id] = NoView]
    /\ UNCHANGED <<sync, next_id, ops, sp_history>>

\* What Transaction::execute_statement may return to execute_statement_internal.
ExecResults == {"Ok", "Deadlock", "Other"}

\* execute_statement_internal, lines 971-996: the lock the statement needs; a
\* Serializable SELECT asks for a Shared lock when the transaction is not active
\* in the MVCC manager.
internal_locks(s, transaction_id, stmt, isolation_level, ord) ==
    IF stmt.kind \in {"Insert", "Update"}
    THEN acquire_lock_on(s, transaction_id, stmt.table, "Exclusive", ord)
    ELSE IF isolation_level = "Serializable" /\ ~is_active(s.m, transaction_id)
    THEN acquire_lock_on(s, transaction_id, stmt.table, "Shared", ord)
    ELSE [res |-> "Ok", s |-> s]

\* execute_statement_internal, lines 998-1022: under Serializable the working
\* copy is reconciled with the snapshot of the start, then the transaction
\* executes the statement, with result exec.
internal_execute(s, transaction_id, stmt, isolation_level, exec) ==
    LET transaction == s.at[transaction_id]
        snapshot == transaction.snapshot
        reconciled ==
            IF isolation_level # "Serializable" THEN transaction
            ELSE IF stmt.kind = "Select"
            THEN [transaction EXCEPT !.tables = restore_from(@, snapshot)]
            ELSE [transaction EXCEPT
                     !.tables = restore_from(@, restore_from(snapshot, transaction.tables))]
        done == IF exec = "Ok" /\ stmt.kind = "Insert"
                THEN Transaction_insert(reconciled, stmt.table, stmt.row)
                ELSE reconciled
    IN  [res |-> exec, s |-> [s EXCEPT !.at[transaction_id] = done]]

\* execute_statement_internal on the manager value s.
execute_statement_internal(s, transaction_id, stmt, exec, ord) ==
    IF transaction_id \notin DOMAIN s.at THEN [res |-> "TransactionNotFound", s |-> s]
    ELSE LET isolation_level == s.at[transaction_id].isolation_level
             locked == internal_locks(s, transaction_id, stmt, isolation_level, ord)
         IN  IF locked.res # "Ok" THEN locked
             ELSE internal_execute(locked.s, transaction_id, stmt, isolation_level, exec)

\* try_execute_with_retry, line 950: the milliseconds slept before the next
\* attempt, 10 * (1 << retries) in u64, which does not wrap for retries <= 60.
backoff_millis(retries) == 10 * 2^retries

\* retry_allowed with one retry more than max_retries.
retry_allowed_once_more(retries, max_retries) == retries <= max_retries

\* try_execute_with_retry, line 948: the guard of the retry arm.
retry_allowed(retries, max_retries) == retries < max_retries

\* try_execute_with_retry, lines 944-956: the loop from attempt retries + 1 on;
\* execs[i] is what the transaction returns when attempt i reaches it.
RECURSIVE retry_loop(_, _, _, _, _, _, _, _)
retry_loop(s, transaction_id, stmt, max_retries, retries, execs, ord, done) ==
    LET r == execute_statement_internal(s, transaction_id, stmt, execs[retries + 1], ord)
        attempts == Append(done.attempts, r.res)
    IN  IF r.res = "Deadlock" /\ retry_allowed(retries, max_retries)
        THEN retry_loop(r.s, transaction_id, stmt, max_retries, retries + 1, execs, ord,
                        [done EXCEPT !.attempts = attempts,
                                     !.slept = Append(@, backoff_millis(retries))])
        ELSE [res |-> r.res, s |-> r.s, retry |-> [done EXCEPT !.attempts = attempts]]

\* try_execute_with_retry on the manager value s.
try_execute_with_retry_on(s, transaction_id, stmt, max_retries, execs, ord) ==
    LET none == [NoRetry EXCEPT !.max_retries = max_retries] IN
    IF ~is_active(s.m, transaction_id)
    THEN [res |-> "TransactionNotActive", s |-> s, retry |-> none]
    ELSE retry_loop(s, transaction_id, stmt, max_retries, 0, execs, ord, none)

\* The results of the transaction in the attempts of one call: Deadlock in the
\* first deadlocks attempts that reach it, exec in those after them.
ExecSequence(max_retries, deadlocks, exec) ==
    [i \in 1..(max_retries + 2) |-> IF i <= deadlocks THEN "Deadlock" ELSE exec]

try_execute_with_retry(transaction_id, stmt, max_retries) ==
    /\ ops < MaxStmts
    /\ ops' = ops + 1
    /\ \E deadlocks \in 0..(max_retries + 1) :
       \E exec \in IF deadlocks > max_retries THEN {"Deadlock"} ELSE ExecResults \ {"Deadlock"} :
       \E ord \in Orders(get_lock_holders(lock_manager, stmt.table)) :
          LET execs == ExecSequence(max_retries, deadlocks, exec)
              r == try_execute_with_retry_on(Manager, transaction_id, stmt, max_retries, execs, ord)
          IN  /\ Install(r.s)
              /\ last' = [Call("try_execute_with_retry", transaction_id, r.res) EXCEPT
                             !.table = stmt.table, !.stmt = stmt, !.retry = r.retry]
    /\ UNCHANGED <<sync, next_id, outcome, begin_view, sp_history>>

\* commit_transaction with a failure after the MVCC commit step.
commit_transaction_failing(id, step) ==
    LET r == commit_transaction_failing_on(Manager, id, step) IN
    /\ Install(r.s)
    /\ last' = [Call("commit_transaction", id, r.res) EXCEPT !.mvcc_err = r.mvcc_err]
    /\ outcome' = Ended(id, r.res, id \in DOMAIN active_transactions, r.s.m.timestamp_counter)
    /\ begin_view' = [begin_view EXCEPT ![id] = NoView]
    /\ UNCHANGED <<sync, next_id, ops, sp_history>>

rollback_transaction(id) ==
    LET r == rollback_transaction_on(Manager, id) IN
    /\ Install(r.s)
    /\ last' = [Call("rollback_transaction", id, r.res) EXCEPT
                   !.released = {tb \in Tables : id \in lock_manager[tb].holders
                                                 /\ lock_manager[tb].mode = "Exclusive"}]
    /\ outcome' = IF id \in DOMAIN active_transactions
                  THEN [outcome EXCEPT ![id] = Outcome("aborted", 0)] ELSE outcome
    /\ begin_view' = [begin_view EXCEPT ![id] = NoView]
    /\ UNCHANGED <<sync, next_id, ops, sp_history>>

acquire_lock(transaction_id, table_name, lock_type) ==
    /\ ops < MaxOps
    /\ \E ord \in Orders(get_lock_holders(lock_manager, table_name)) :
          LET r == acquire_lock_on(Manager, transaction_id, table_name, lock_type, ord) IN
          /\ Install(r.s)
          /\ last' = [Call("acquire_lock", transaction_id, r.res) EXCEPT
                         !.table = table_name, !.mode = lock_type]
    /\ ops' = ops + 1
    /\ UNCHANGED <<sync, next_id, outcome, begin_view, sp_history>>

\* The number of versions transaction tx has on key k in the chains vs.
OwnCount(vs, tx, k) == Cardinality({i \in DOMAIN vs[k] : vs[k][i].tx_id = tx})

\* The history after create_savepoint(tx, name): how many versions tx has staged.
Marked(h, vs, tx, name) ==
    [h EXCEPT !.mark[tx][name] = [k \in Keys |-> OwnCount(vs, tx, k)]]

\* The history after rollback_to_savepoint(tx, name) returned Ok: the versions
\* tx staged after the savepoint (its n-th on key k, as <<tx, k, n>>) are undone.
Undone(h, vs, tx, name) ==
    [h EXCEPT !.undone = @ \cup UNION {{<<tx, k, n>> : n \in (h.mark[tx][name][k] + 1)..OwnCount(vs, tx, k)} :
                                          k \in Keys}]

create_savepoint(transaction_id, name) ==
    /\ ops < MaxStmts
    /\ IF transaction_id \notin DOMAIN active_transactions
       THEN /\ last' = [Call("create_savepoint", transaction_id, "TransactionNotFound")
                            EXCEPT !.name = name]
            /\ UNCHANGED <<savepoints, sp_history>>
       ELSE LET table_state == get_table_state(active_transactions[transaction_id]) IN
            /\ savepoints' = sp_create_savepoint(savepoints, transaction_id, name, table_state)
            /\ last' = [Call("create_savepoint", transaction_id, "Ok") EXCEPT !.name = name]
            /\ sp_history' = Marked(sp_history, versions, transaction_id, name)
    /\ ops' = ops + 1
    /\ UNCHANGED <<sync, next_id, active_transactions, lock_manager, wait_for, timestamp_counter,
                   read_ts, versions, wal, reef_db, outcome, begin_view>>

rollback_to_savepoint(transaction_id, name, wal_fails) ==
    /\ ops < MaxStmts
    /\ LET r == rollback_to_savepoint_on(Manager, transaction_id, name, wal_fails) IN
       /\ Install(r.s)
       /\ last' = [Call("rollback_to_savepoint", transaction_id, r.res) EXCEPT
                      !.name = name, !.state = r.state,
                      !.discarded = {savepoints[transaction_id][i].name :
                                        i \in DOMAIN savepoints[transaction_id]}
                                    \ {r.s.sp[transaction_id][i].name :
                                          i \in DOMAIN r.s.sp[transaction_id]}]
       /\ sp_history' = IF r.res = "Ok"
                        THEN Undone(sp_history, versions, transaction_id, name)
                        ELSE sp_history
    /\ ops' = ops + 1
    /\ UNCHANGED <<sync, next_id, outcome, begin_view>>

release_savepoint(transaction_id, name) ==
    /\ ops < MaxStmts
    /\ IF transaction_id \notin DOMAIN active_transactions
       THEN /\ last' = Call("release_savepoint", transaction_id, "TransactionNotFound")
            /\ UNCHANGED savepoints
       ELSE LET r == sp_release_savepoint(savepoints, transaction_id, name) IN
            /\ savepoints' = r.sp
            /\ last' = Call("release_savepoint", transaction_id, r.res)
    /\ ops' = ops + 1
    /\ UNCHANGED <<sync, next_id, active_transactions, lock_manager, wait_for, timestamp_counter,
                   read_ts, versions, wal, reef_db, outcome, begin_view, sp_history>>

\* The statements the model issues: INSERT of the row with key 2 (its second
\* column names the inserting transaction), UPDATE of one column, SELECT *.
InsertStmt(tx) ==
    [kind |-> "Insert", table |-> "a", row |-> <<Integer(2), Integer(tx), Integer(0)>>]

UpdateStmts ==
    {[kind |-> "Update", table |-> tb, updates |-> << <<c, Integer(1)>> >>, where_clause |-> w] :
        tb \in StmtTables, c \in {"x", "y"}, w \in {NoWhere, Regular("", "id", Integer(1))}}

\* SELECT * FROM table with the clauses given.
Select(table, where_clause, joins, order_by) ==
    [kind |-> "Select", table |-> table, where_clause |-> where_clause, joins |-> joins,
     order_by |-> order_by]

SelectStmts == {Select(tb, NoWhere, << >>, << >>) : tb \in StmtTables}

\* execute_statement, Insert branch: delegated to the transaction's working copy.
execute_insert(transaction_id, stmt) ==
    /\ ops < MaxStmts
    /\ ops' = ops + 1
    /\ IF transaction_id \notin DOMAIN active_transactions
       THEN /\ last' = Call("insert", transaction_id, NotFound)
            /\ UNCHANGED active_transactions
       ELSE /\ active_transactions' =
                 [active_transactions EXCEPT
                     ![transaction_id] = Transaction_insert(@, stmt.table, stmt.row)]
            /\ last' = [Call("insert", transaction_id, "Ok") EXCEPT !.table = stmt.table]
    /\ UNCHANGED <<sync, next_id, lock_manager, wait_for, timestamp_counter, read_ts, versions,
                   savepoints, wal, reef_db, outcome, begin_view, sp_history>>

\* execute_statement, Update branch: one MVCC version per matched row.
execute_update(transaction_id, stmt) ==
    /\ ops < MaxStmts
    /\ ops' = ops + 1
    /\ IF transaction_id \notin DOMAIN active_transactions
       THEN /\ last' = Call("update", transaction_id, NotFound)
            /\ UNCHANGED <<active_transactions, timestamp_counter, read_ts, versions>>
       ELSE LET transaction == active_transactions[transaction_id]
                final_state == restore_from(transaction.snapshot, transaction.tables)
                reconciled ==
                    IF transaction.isolation_level = "Serializable"
                    THEN [transaction EXCEPT !.tables = restore_from(@, final_state)]
                    ELSE transaction
                r == UpdateRows(MvccNow, transaction_id, stmt.table,
                                reconciled.storage[stmt.table], 1, stmt.updates,
                                stmt.where_clause, 0)
            IN  /\ active_transactions' =
                     [active_transactions EXCEPT ![transaction_id] = reconciled]
                /\ timestamp_counter' = r.m.timestamp_counter
                /\ read_ts' = r.m.read_ts
                /\ versions' = r.m.versions
                /\ last' = [Call("update", transaction_id, r.res) EXCEPT
                               !.table = stmt.table, !.updated_count = r.updated_count]
    /\ UNCHANGED <<sync, next_id, lock_manager, wait_for, savepoints, wal, reef_db, outcome,
                   begin_view, sp_history>>

\* execute_statement, Select branch (all columns): the rows read, joined and
\* filtered, then sorted.
execute_select(transaction_id, stmt) ==
    /\ IF transaction_id \notin DOMAIN active_transactions
       THEN /\ last' = Call("select", transaction_id, NotFound)
            /\ UNCHANGED active_transactions
       ELSE LET transaction == active_transactions[transaction_id]
                restored ==
                    IF transaction.isolation_level = "Serializable"
                    THEN [transaction EXCEPT !.tables = restore_from(@, transaction.snapshot)]
                    ELSE transaction
            IN  /\ active_transactions' =
                     [active_transactions EXCEPT ![transaction_id] = restored]
                /\ last' = [Call("select", transaction_id, "Ok") EXCEPT
                               !.table = stmt.table, !.stmt = stmt,
                               !.rows =
                                   sort_results(
                                       JoinedResults(
                                           SelectRows(MvccNow, transaction_id,
                                                      transaction.isolation_level, stmt.table,
                                                      restored.storage[stmt.table], 1),
                                           1, stmt, restored.storage, SchemaOf(stmt.table)),
                                       stmt.order_by, SchemaOf(stmt.table), stmt.table,
                                       stmt.joins)]
    /\ UNCHANGED <<sync, next_id, lock_manager, wait_for, timestamp_counter, read_ts, versions,
                   savepoints, wal, reef_db, ops, outcome, begin_view, sp_history>>

\* execute_statement: the branch is chosen by the kind of statement.
execute_statement(transaction_id, stmt) ==
    \/ stmt.kind = "Insert" /\ execute_insert(transaction_id, stmt)
    \/ stmt.kind = "Update" /\ execute_update(transaction_id, stmt)
    \/ stmt.kind = "Select" /\ execute_select(transaction_id, stmt)

\* execute_statement_committed: a SELECT returns the system reader's rows (the
\* joins of the statement are not looked at), any other statement is refused.
execute_statement_committed(stmt) ==
    /\ IF stmt.kind = "Select"
       THEN last' = [Call("execute_statement_committed", 0, "Ok") EXCEPT
                        !.table = stmt.table, !.stmt = stmt,
                        !.rows = sort_results(
                                     CommittedRows(MvccNow, stmt.table,
                                                   reef_db.storage[stmt.table], 1,
                                                   stmt.where_clause),
                                     stmt.order_by, SchemaOf(stmt.table), stmt.table, << >>)]
       ELSE last' = [Call("execute_statement_committed", 0,
                          "Other(Only SELECT statements are supported in read committed mode)")
                        EXCEPT !.table = stmt.table, !.stmt = stmt]
    /\ UNCHANGED <<sync, next_id, active_transactions, lock_manager, wait_for, timestamp_counter,
                   read_ts, versions, savepoints, wal, reef_db, ops, outcome, begin_view,
                   sp_history>>

\* A thread enters an operation of its clone of the manager.
enter_call(t, script) ==
    /\ sync.run[t].script = << >>
    /\ sync' = [sync EXCEPT !.run[t] = [script |-> script, pc |-> 1]]
    /\ UNCHANGED <<next_id, active_transactions, lock_manager, wait_for, timestamp_counter,
                   read_ts, versions, savepoints, wal, reef_db, ops, last, outcome, begin_view,
                   sp_history>>

\* Mutex::lock: the thread gets the guard when no thread holds the mutex, and
\* waits otherwise.
mutex_lock(t) ==
    /\ NextStep(t) # << >> /\ NextStep(t)[1] = "lock"
    /\ sync.owner[NextStep(t)[2]] = 0
    /\ sync' = [sync EXCEPT !.owner[NextStep(t)[2]] = t, !.run = Advance(@, t)]
    /\ UNCHANGED <<next_id, active_transactions, lock_manager, wait_for, timestamp_counter,
                   read_ts, versions, savepoints, wal, reef_db, ops, last, outcome, begin_view,
                   sp_history>>

\* The guard is dropped.
mutex_unlock(t) ==
    /\ NextStep(t) # << >> /\ NextStep(t)[1] = "unlock"
    /\ sync' = [sync EXCEPT !.owner[NextStep(t)[2]] = 0, !.run = Advance(@, t)]
    /\ UNCHANGED <<next_id, active_transactions, lock_manager, wait_for, timestamp_counter,
                   read_ts, versions, savepoints, wal, reef_db, ops, last, outcome, begin_view,
                   sp_history>>

\* ------------------------------------------------------------ specification
\* TransactionManager::create on the database db.
create(db) ==
    /\ next_id = 1
    /\ active_transactions = << >>
    /\ lock_manager = [tb \in Tables |-> [holders |-> {}, mode |-> "Shared"]]
    /\ wait_for = {}
    /\ timestamp_counter = 0
    /\ read_ts = << >>
    /\ versions = [k \in Keys |-> << >>]
    /\ savepoints = [t \in TxIds |-> << >>]
    /\ wal = << >>
    /\ reef_db = [tables |-> db, storage |-> db]
    /\ ops = 0
    /\ last = NoCall
    /\ outcome = [t \in TxIds |-> Outcome("none", 0)]
    /\ begin_view = [t \in TxIds |-> NoView]
    /\ sp_history = [mark |-> [t \in TxIds |-> [n \in Names |-> [k \in Keys |-> 0]]],
                     undone |-> {}]
    /\ sync = NoSync

\* The manager is created on a database that holds the two tables.
Init == create(InitTables)

Next ==
    \/ \E isolation_level \in Levels : begin_transaction(isolation_level)
    \/ \E id \in TxIds, wal_fails \in BOOLEAN : commit_transaction(id, wal_fails)
    \/ \E id \in TxIds : rollback_transaction(id)
    \/ \E tx \in TxIds, tb \in Tables, lt \in LockTypes : acquire_lock(tx, tb, lt)
    \/ \E tx \in TxIds, n \in Names : create_savepoint(tx, n)
    \/ \E tx \in TxIds, n \in Names, wal_fails \in BOOLEAN : rollback_to_savepoint(tx, n, wal_fails)
    \/ \E tx \in TxIds, n \in Names : release_savepoint(tx, n)
    \/ \E tx \in TxIds : execute_statement(tx, InsertStmt(tx))
    \/ \E tx \in TxIds, stmt \in UpdateStmts \cup SelectStmts : execute_statement(tx, stmt)
    \/ \E stmt \in SelectStmts : execute_statement_committed(stmt)

Spec == Init /\ [][Next]_vars

\* The calls of the specifications below come from clients that hold the id of
\* an active transaction (acquire_lock, which does not look at the map, is also
\* called with other ids); Next above also makes the calls with stale ids.
Active == DOMAIN active_transactions

\* The lock layer alone: begin, lock requests and the two ways a transaction ends.
NextLock ==
    \/ begin_transaction("Serializable")
    \/ \E id \in Active : commit_transaction(id, FALSE)
    \/ \E id \in Active : rollback_transaction(id)
    \/ \E tx \in TxIds, tb \in Tables, lt \in LockTypes : acquire_lock(tx, tb, lt)

SpecLock == Init /\ [][NextLock]_vars

\* The version store: begin, UPDATE and SELECT, and the two ways a transaction ends.
NextMvcc ==
    \/ \E isolation_level \in Levels : begin_transaction(isolation_level)
    \/ \E id \in Active : commit_transaction(id, FALSE)
    \/ \E id \in Active : rollback_transaction(id)
    \/ \E tx \in Active, stmt \in {u \in UpdateStmts : u.where_clause # NoWhere} \cup SelectStmts :
          execute_statement(tx, stmt)
    \/ \E stmt \in SelectStmts : execute_statement_committed(stmt)

SpecMvcc == Init /\ [][NextMvcc]_vars

\* Savepoints: begin, INSERT, the savepoint calls, SELECT and the two ways a
\* transaction ends.
NextSavepoint ==
    \/ begin_transaction("ReadCommitted")
    \/ \E id \in Active : commit_transaction(id, FALSE)
    \/ \E id \in Active : rollback_transaction(id)
    \/ \E tx \in Active, n \in Names : create_savepoint(tx, n)
    \/ \E tx \in Active, n \in Names : rollback_to_savepoint(tx, n, FALSE)
    \/ \E tx \in Active, n \in Names : release_savepoint(tx, n)
    \/ \E tx \in Active : execute_statement(tx, InsertStmt(tx))
    \/ \E tx \in Active, stmt \in SelectStmts : execute_statement(tx, stmt)
    \/ \E stmt \in SelectStmts : execute_statement_committed(stmt)

SpecSavepoint == Init /\ [][NextSavepoint]_vars

\* The working copy under savepoints: INSERT, the savepoint calls and commit,
\* which publishes a working copy for the transactions that begin after it.
NextWorkingCopy ==
    \/ begin_transaction("ReadCommitted")
    \/ \E id \in Active : commit_transaction(id, FALSE)
    \/ \E tx \in Active, n \in Names : create_savepoint(tx, n)
    \/ \E tx \in Active, n \in Names : rollback_to_savepoint(tx, n, FALSE)
    \/ \E tx \in Active, n \in Names : release_savepoint(tx, n)
    \/ \E tx \in Active : execute_statement(tx, InsertStmt(tx))

SpecWorkingCopy == Init /\ [][NextWorkingCopy]_vars

\* commit_transaction on all its paths: called with any id, with a WAL append
\* that may fail and an MVCC commit that fails on a concurrent write.
NextCommit ==
    \/ begin_transaction("ReadCommitted")
    \/ \E id \in TxIds, wal_fails \in BOOLEAN : commit_transaction(id, wal_fails)
    \/ \E id \in Active : rollback_transaction(id)
    \/ \E tx \in Active, stmt \in {u \in UpdateStmts : u.where_clause # NoWhere} :
          execute_statement(tx, stmt)

SpecCommit == Init /\ [][NextCommit]_vars

\* The write-ahead log and the failure paths: commit and rollback_to_savepoint
\* with a WAL append that may fail, commit with any id, UPDATE under savepoints
\* and Exclusive lock requests on the table the statements address.
NextWal ==
    \/ begin_transaction("ReadCommitted")
    \/ \E id \in TxIds, wal_fails \in BOOLEAN : commit_transaction(id, wal_fails)
    \/ \E id \in Active : rollback_transaction(id)
    \/ \E tx \in Active, tb \in StmtTables : acquire_lock(tx, tb, "Exclusive")
    \/ \E tx \in Active, stmt \in {u \in UpdateStmts : u.where_clause # NoWhere} :
          execute_statement(tx, stmt)
    \/ \E tx \in Active : create_savepoint(tx, "s1")
    \/ \E tx \in Active, wal_fails \in BOOLEAN : rollback_to_savepoint(tx, "s1", wal_fails)

SpecWal == Init /\ [][NextWal]_vars

\* Publication at commit: INSERT and UPDATE by active transactions and
\* commit_transaction of an active transaction on each of its paths, with a WAL
\* append, a database mutex or a Transaction::commit that may fail.
FailingSteps == {"database", "commit"}

NextPublish ==
    \/ begin_transaction("ReadCommitted")
    \/ \E id \in Active, wal_fails \in BOOLEAN : commit_transaction(id, wal_fails)
    \/ \E id \in Active, step \in FailingSteps : commit_transaction_failing(id, step)
    \/ \E tx \in Active : execute_statement(tx, InsertStmt(tx))
    \/ \E tx \in Active, stmt \in {u \in UpdateStmts : u.where_clause # NoWhere} :
          execute_statement(tx, stmt)

SpecPublish == Init /\ [][NextPublish]_vars

\* Statements run with retry: INSERT and SELECT of Serializable transactions
\* through try_execute_with_retry, called with any id, beside Exclusive lock
\* requests on the table the statements address.
NextRetry ==
    \/ begin_transaction("Serializable")
    \/ \E tx \in TxIds, tb \in StmtTables : acquire_lock(tx, tb, "Exclusive")
    \/ \E tx \in TxIds, max_retries \in 0..MaxRetries :
          \E stmt \in {InsertStmt(tx)} \cup SelectStmts :
              try_execute_with_retry(tx, stmt, max_retries)

SpecRetry == Init /\ [][NextRetry]_vars

\* Threads, one for each transaction id, that call the operations of their
\* clones of the manager and meet at the mutexes of the shared subsystems.
NextMutex ==
    \/ \E t \in TxIds, script \in MutexScripts : enter_call(t, script)
    \/ \E t \in TxIds : mutex_lock(t)
    \/ \E t \in TxIds : mutex_unlock(t)

SpecMutex == Init /\ [][NextMutex]_vars

\* Calls with the id of a transaction that is not active: commit and rollback
\* with any id, INSERT and create_savepoint with any id, the other statements
\* and savepoint calls with the ids that are not in the map.
NextStale ==
    \/ begin_transaction("ReadCommitted")
    \/ \E id \in TxIds : commit_transaction(id, FALSE)
    \/ \E id \in TxIds : rollback_transaction(id)
    \/ \E tx \in TxIds :
          \E stmt \in {InsertStmt(tx)}
                      \cup (IF tx \in Active THEN {} ELSE UpdateStmts \cup SelectStmts) :
              execute_statement(tx, stmt)
    \/ \E tx \in TxIds : create_savepoint(tx, "s1")
    \/ \E tx \in TxIds \ Active : rollback_to_savepoint(tx, "s1", FALSE)
    \/ \E tx \in TxIds \ Active : release_savepoint(tx, "s1")

SpecStale == Init /\ [][NextStale]_vars

\* The values a column of the query database holds.
Vals == {0, 1}

\* The databases with base table t of two rows, the second with key k2; u with
\* three rows that refer to rows of t; w with one row for each row of t.
DbsWithKey(k2) ==
    {[t |-> << <<Integer(1), Integer(g1)>>, <<k2, Integer(g2)>> >>,
      u |-> << <<Integer(1), Integer(1), Integer(0)>>,
               <<Integer(2), Integer(1), Integer(p2)>>,
               <<Integer(3), Integer(tid3), Integer(p3)>> >>,
      w |-> << <<Integer(1), Integer(1), Integer(1)>>,
               <<Integer(2), Integer(2), Integer(0)>> >>] :
        g1 \in Vals, g2 \in Vals, tid3 \in PKs, p2 \in Vals, p3 \in Vals}

\* The query databases: every row has an integer key.
QueryDbs == DbsWithKey(Integer(2))

\* The databases in which the second row of t may have a text key.
RowDbs == DbsWithKey(Integer(2)) \cup DbsWithKey(Text(7))

\* OrderByClause: a column, qualified or not, and a direction.
OrderBy(table, name, direction) == [table |-> table, name |-> name, direction |-> direction]

Directions == {"Asc", "Desc"}

\* JOIN u ON t.id = u.tid, the same with unqualified columns, and the two joins
\* JOIN u ON t.id = u.tid JOIN w ON t.id = w.tfk.
QueryJoins ==
    {<< >>,
     << Join("u", Pair("t", "id"), Pair("u", "tid")) >>,
     << Join("u", Pair("", "id"), Pair("", "tid")) >>,
     << Join("u", Pair("t", "id"), Pair("u", "tid")),
        Join("w", Pair("t", "id"), Pair("w", "tfk")) >>}

QueryWheres ==
    {NoWhere, Regular("", "g", Integer(1)), Regular("u", "p", Integer(1)),
     Regular("w", "q", Integer(1))}

\* ORDER BY on base columns, with one key and with two, and on a column of a
\* joined table, qualified and not.
QueryOrders ==
    {<< >>}
    \cup {<< OrderBy(tb, "g", d) >> : tb \in {"", "t"}, d \in Directions}
    \cup {<< OrderBy("t", "g", d1), OrderBy("", "id", d2) >> : d1 \in Directions, d2 \in Directions}
    \cup {<< OrderBy("u", "p", "Asc") >>, << OrderBy("", "p", "Asc") >>,
          << OrderBy("w", "q", "Asc") >>}

\* The SELECT statements on the query database: a WHERE clause or an ORDER BY
\* clause, over each list of joins.
QueryStmts ==
    {Select("t", where_clause, joins, << >>) : where_clause \in QueryWheres, joins \in QueryJoins}
    \cup {Select("t", NoWhere, joins, order_by) : joins \in QueryJoins, order_by \in QueryOrders}

\* UPDATE t SET g = 1.
QueryUpdate ==
    [kind |-> "Update", table |-> "t", updates |-> << <<"g", Integer(1)>> >>,
     where_clause |-> NoWhere]

InitQuery == \E db \in QueryDbs : create(db)

\* Queries of one client: SELECT with WHERE, JOIN and ORDER BY on the query
\* database.
NextQuery ==
    \/ Active = {} /\ begin_transaction("ReadCommitted")
    \/ \E tx \in Active, stmt \in QueryStmts : execute_statement(tx, stmt)

SpecQuery == InitQuery /\ [][NextQuery]_vars

\* Rows and statements of every kind: SELECT and UPDATE on the query database,
\* where a row may have a text key, and statements in read committed mode.
NextRows ==
    \/ begin_transaction("ReadCommitted")
    \/ \E tx \in Active, where_clause \in {NoWhere, Regular("", "g", Integer(1))} :
          execute_statement(tx, Select("t", where_clause, << >>, << >>))
    \/ \E tx \in Active : execute_statement(tx, QueryUpdate)
    \/ \E stmt \in {Select("t", NoWhere, << >>, << >>), QueryUpdate} :
          execute_statement_committed(stmt)

InitRows == \E db \in RowDbs : create(db)

SpecRows == InitRows /\ [][NextRows]_vars

\* UPDATE t SET g = 1 WHERE id = 2: the statement that matches the second row.
KeyedUpdate == [QueryUpdate EXCEPT !.where_clause = Regular("", "id", Integer(2))]

\* UPDATE statements over several rows: clients update one row or every row of
\* the two-row table t, and read it.
NextUpdate ==
    \/ begin_transaction("ReadCommitted")
    \/ \E tx \in Active : execute_statement(tx, KeyedUpdate)
    \/ \E tx \in Active : execute_statement(tx, QueryUpdate)
    \/ \E tx \in Active : execute_statement(tx, Select("t", NoWhere, << >>, << >>))

SpecUpdate == InitQuery /\ [][NextUpdate]_vars

\* ------------------------------------------------------------------- claims
\* C1: in every reachable state a table whose lock is Exclusive has at most one
\* holder, so an Exclusive holder never coexists with another holder, Shared or
\* Exclusive; a table with several holders is held Shared by all of them.
C1_ExclusiveIsSole ==
    \A tb \in Tables :
        lock_manager[tb].mode = "Exclusive" => Cardinality(lock_manager[tb].holders) <= 1

\* C1 witness: a Shared holder asked for Exclusive while another transaction
\* also holds the table Shared, and was refused.
C1_Witness ==
    /\ last.op = "acquire_lock" /\ last.mode = "Exclusive" /\ last.res = "LockConflict"
    /\ last.tx \in lock_manager[last.table].holders
    /\ Cardinality(lock_manager[last.table].holders) >= 2

\* C7: with Tx1 holding a Exclusive and Tx2 (higher id) holding b Exclusive, after
\* Tx1 asked for b, the request of Tx2 for a returns Deadlock, and Tx1 was not the
\* victim.
C7_DeadlockVictim ==
    [][\A t1, t2 \in Active :
          ( /\ t1 < t2
            /\ lock_manager["a"] = [holders |-> {t1}, mode |-> "Exclusive"]
            /\ lock_manager["b"] = [holders |-> {t2}, mode |-> "Exclusive"]
            /\ last.op = "acquire_lock" /\ last.tx = t1 /\ last.table = "b"
            /\ last'.op = "acquire_lock" /\ last'.tx = t2 /\ last'.table = "a" )
          => (last.res # "Deadlock" /\ last'.res = "Deadlock")]_vars

\* C8: a request for a table that another transaction holds Exclusive returns an
\* error and leaves the lock table as it was; once commit_transaction or
\* rollback_transaction of the holder returned Ok the holder holds no lock, and
\* every request of another transaction for a table it held Exclusive is granted.
C8_ConflictThenRelease ==
    [][ /\ ( /\ last'.op = "acquire_lock"
             /\ \E t1 \in TxIds \ {last'.tx} :
                   lock_manager[last'.table] = [holders |-> {t1}, mode |-> "Exclusive"] )
           => (last'.res # "Ok" /\ lock_manager' = lock_manager)
        /\ ( /\ last'.op \in {"commit_transaction", "rollback_transaction"}
             /\ last'.res = "Ok" )
           => /\ \A tb \in Tables : last'.tx \notin lock_manager'[tb].holders
              /\ \A tb \in last'.released, t2 \in TxIds \ {last'.tx}, lt \in LockTypes :
                    \A ord \in Orders(get_lock_holders(lock_manager', tb)) :
                        acquire_lock_on(Manager', t2, tb, lt, ord).res = "Ok"
      ]_vars

\* C8 witness: a transaction that held a table Exclusive has committed.
C8_Witness ==
    last.op = "commit_transaction" /\ last.res = "Ok" /\ last.released # {}

\* The versions of transaction tx on key k, as positions of the chain.
Own(tx, k) == {i \in DOMAIN versions[k] : versions[k][i].tx_id = tx}

\* C2: a SELECT of a RepeatableRead or Serializable transaction that has written
\* nothing returns the rows it would have returned at its begin, whatever other
\* transactions have committed since.
C2_SnapshotReads ==
    ( /\ last.op = "select" /\ last.res = "Ok"
      /\ active_transactions[last.tx].isolation_level \in {"RepeatableRead", "Serializable"}
      /\ \A k \in Keys : Own(last.tx, k) = {} )
    => Data(last.rows) = begin_view[last.tx][last.table]

\* C4: no row returned by a SELECT or by execute_statement_committed comes from
\* a version of another transaction that has not committed (or was rolled back),
\* and no step removes a committed version from its chain.
C4_NoDirtyReads ==
    /\ [](last.op \in {"select", "execute_statement_committed"} =>
            \A i \in DOMAIN last.rows :
                LET r == last.rows[i] IN
                (r.writer # 0 /\ r.writer # last.tx) =>
                    (r.committed /\ outcome[r.writer].state = "committed"))
    /\ [][\A k \in Keys : \A i \in DOMAIN versions[k] :
            versions[k][i].committed =>
                \E j \in DOMAIN versions'[k] :
                    /\ versions'[k][j].committed
                    /\ versions'[k][j].tx_id = versions[k][i].tx_id
                    /\ versions'[k][j].data = versions[k][i].data
                    /\ versions'[k][j].begin_ts = versions[k][i].begin_ts]_vars

\* C4 witness: a SELECT returned rows of a table on which another transaction
\* has an uncommitted version.
C4_Witness ==
    /\ last.op = "select" /\ last.res = "Ok" /\ last.rows # << >>
    /\ \E pk \in PKs : \E i \in DOMAIN versions[KeyFormat_row(last.table, pk)] :
          LET v == versions[KeyFormat_row(last.table, pk)][i] IN
          ~v.committed /\ v.tx_id # last.tx

C6_ReadYourWrites ==
    (last.op = "select" /\ last.res = "Ok") =>
        \A n \in DOMAIN last.rows :
            LET k == KeyFormat_row(last.table, last.rows[n].data[1].v) IN
            \A c \in 2..Len(Schema) :
                (\E i \in Own(last.tx, k) : versions[k][i].data[c] = Integer(1))
                    => last.rows[n].data[c] = Integer(1)

\* C9: when the MVCC commit step of commit_transaction fails with error E, the
\* call returns E and the transaction is rolled back: none of its uncommitted
\* versions, locks, wait-for edges or savepoints is left.
C9_FailedCommitRollsBack ==
    (last.op = "commit_transaction" /\ last.mvcc_err # "none") =>
        /\ last.res = last.mvcc_err
        /\ \A k \in Keys : \A i \in Own(last.tx, k) : versions[k][i].committed
        /\ \A tb \in Tables : last.tx \notin lock_manager[tb].holders
        /\ \A e \in wait_for : e[1] # last.tx /\ e[2] # last.tx
        /\ savepoints[last.tx] = << >>

\* The WAL holds a Commit entry of transaction t.
HasCommit(t) ==
    \E i \in DOMAIN wal : wal[i].transaction_id = t /\ wal[i].operation = "Commit"

\* C10: the WAL holds a Commit entry of an ended transaction if and only if its
\* commit_transaction returned Ok.
C10_WalCommitIffCommitted ==
    \A t \in TxIds :
        outcome[t].state \in {"committed", "aborted"} =>
            (HasCommit(t) <=> outcome[t].state = "committed")

\* A row of the shared database that transaction t inserted.
InsertedBy(t) ==
    \E tb \in Tables :
        \/ \E i \in DOMAIN reef_db.tables[tb] : reef_db.tables[tb][i] = InsertStmt(t).row
        \/ \E i \in DOMAIN reef_db.storage[tb] : reef_db.storage[tb][i] = InsertStmt(t).row

\* C3: once rollback_transaction(T) returned Ok, the shared database holds no row
\* that T inserted and the version store no version that T wrote, whatever
\* statements and savepoint calls T made.
C3_RollbackLeavesNoTrace ==
    (last.op = "rollback_transaction" /\ last.res = "Ok") =>
        /\ ~InsertedBy(last.tx)
        /\ \A k \in Keys : Own(last.tx, k) = {}

\* C11: no version is committed, hence visible to another reader, while the WAL
\* lacks the Commit entry of its writer; and a commit_transaction(T) that leaves
\* the WAL without T's Commit entry has committed no version and has not
\* touched the shared database: the append comes first.
C11_WalBeforeVisible ==
    /\ [](\A k \in Keys : \A i \in DOMAIN versions[k] :
            versions[k][i].committed => HasCommit(versions[k][i].tx_id))
    /\ [][\A t \in TxIds :
            (last'.op = "commit_transaction" /\ last'.tx = t /\ ~HasCommit(t)')
                => (versions' = versions /\ reef_db' = reef_db)]_vars

\* C11 witness: a commit returned Ok, a version of the transaction is committed
\* and the WAL holds its Commit entry.
C11_Witness ==
    /\ last.op = "commit_transaction" /\ last.res = "Ok"
    /\ HasCommit(last.tx)
    /\ \E k \in Keys : \E i \in Own(last.tx, k) : versions[k][i].committed

\* C18: after commit_transaction(id) returned, with Ok or with an error, id is
\* not in the active-transaction map.
C18_CommitRemoves ==
    last.op = "commit_transaction" => last.tx \notin DOMAIN active_transactions

\* C18 witness: a commit of an active transaction returned an error.
C18_Witness ==
    /\ last.op = "commit_transaction" /\ last.res \notin {"Ok", NotFound}
    /\ outcome[last.tx].state = "aborted"

\* The versions transaction tx has on key k, in the order it wrote them.
OwnSeq(tx, k) == SelectSeq(versions[k], LAMBDA v : v.tx_id = tx)

\* C12: a write made after savepoint s and undone by rollback_to_savepoint(s)
\* is not published by the commit: no version that was staged after a savepoint
\* and rolled back to it is ever committed.
C12_UndoneStaysUndone ==
    \A u \in sp_history.undone :
        u[3] <= Len(OwnSeq(u[1], u[2])) => ~OwnSeq(u[1], u[2])[u[3]].committed

C14_NoSavepointAfterEnd ==
    \A t \in TxIds :
        outcome[t].state \in {"committed", "aborted"} => savepoints[t] = << >>

\* C15: when an UPDATE of T returned WriteConflict, T has been rolled back: it
\* is not in the active set, none of its uncommitted versions is left and it
\* holds no lock.
C15_WriteConflictRollsBack ==
    (last.op = "update" /\ last.res = "WriteConflict") =>
        /\ last.tx \notin DOMAIN active_transactions
        /\ \A k \in Keys : \A i \in Own(last.tx, k) : versions[k][i].committed
        /\ \A tb \in Tables : last.tx \notin lock_manager[tb].holders

\* C16: a commit_transaction(T) or rollback_to_savepoint(T, s) whose WAL append
\* failed returns an error and has rolled T back: T is not active, none of its
\* uncommitted versions is left, it holds no lock, and the shared database is
\* as it was before the call.
C16_WalFailureRollsBack ==
    [][\A t \in TxIds :
          ( /\ last'.op \in {"commit_transaction", "rollback_to_savepoint"}
            /\ last'.res = "WalIoError" /\ last'.tx = t )
          => /\ t \notin DOMAIN active_transactions'
             /\ \A k \in Keys : \A i \in DOMAIN versions'[k] :
                   versions'[k][i].tx_id = t => versions'[k][i].committed
             /\ \A tb \in Tables : t \notin lock_manager'[tb].holders
             /\ reef_db' = reef_db]_vars

\* C17: a rollback_transaction(T) that returns Ok appends a Rollback entry of T
\* to the WAL.
C17_RollbackLogged ==
    [][(last'.op = "rollback_transaction" /\ last'.res = "Ok")
          => wal' = append_entry(wal, last'.tx, "Rollback")]_vars

\* C19: an UPDATE that took effect (staged a version) was run by a transaction
\* that holds the Exclusive lock on the table.
C19_WritesHoldExclusive ==
    (last.op = "update" /\ last.res = "Ok" /\ last.updated_count > 0) =>
        /\ lock_manager[last.table].mode = "Exclusive"
        /\ lock_manager[last.table].holders = {last.tx}

\* Row r is among the rows of the sequence rows.
HasRow(rows, r) == \E i \in DOMAIN rows : rows[i] = r

\* C20: a SELECT of a ReadCommitted transaction returns every row that another
\* transaction inserted and committed before the SELECT.
C20_ReadCommittedSeesCommitted ==
    ( /\ last.op = "select" /\ last.res = "Ok"
      /\ active_transactions[last.tx].isolation_level = "ReadCommitted" )
    => \A t \in TxIds \ {last.tx} :
          ( /\ outcome[t].state = "committed"
            /\ HasRow(reef_db.storage[last.table], InsertStmt(t).row) )
          => HasRow(Data(last.rows), InsertStmt(t).row)

\* The schema of the tuples a SELECT with the given joins combines.
RECURSIVE CombinedSchema(_, _)
CombinedSchema(table, joins) ==
    IF joins = << >> THEN SchemaOf(table)
    ELSE CombinedSchema(table, SubSeq(joins, 1, Len(joins) - 1))
         \o SchemaOf(joins[Len(joins)].table)

\* The combined tuples of statement stmt for transaction tx, before WHERE and
\* ORDER BY: every base row the transaction reads with the rows joined to it.
CombinedTuples(tx, stmt) ==
    LET transaction == active_transactions[tx] IN
    JoinedResults(SelectRows(MvccNow, tx, transaction.isolation_level, stmt.table,
                             transaction.storage[stmt.table], 1),
                  1, [stmt EXCEPT !.where_clause = NoWhere], transaction.storage,
                  SchemaOf(stmt.table))

\* The combined tuples that satisfy the WHERE clause of stmt.
Satisfying(tx, stmt) ==
    SelectSeq(CombinedTuples(tx, stmt),
              LAMBDA r : stmt.where_clause = NoWhere
                         \/ evaluate_where_clause(stmt.where_clause, r.data,
                                                  CombinedSchema(stmt.table, stmt.joins),
                                                  stmt.table))

\* C21: a SELECT with a WHERE clause returns exactly the combined tuples that
\* satisfy the predicate on the complete tuple: without JOIN the base rows that
\* satisfy it, with joins (the predicate on a column of any joined table, the
\* last included) the fully joined tuples that satisfy it.
C21_WhereOnCompleteTuple ==
    [][\A tx \in Active :
          ( /\ last'.op = "select" /\ last'.tx = tx /\ last'.res = "Ok"
            /\ last'.stmt.where_clause # NoWhere )
          => last'.rows = Satisfying(tx, last'.stmt)]_vars

\* The permutations of 1..n.
Rearrangements(n) == {pi \in [1..n -> 1..n] : \A i, j \in 1..n : pi[i] = pi[j] => i = j}

\* The value of the column an ORDER BY clause names, in a combined tuple.
KeyOf(row, order_clause, stmt) ==
    row.data[position(CombinedSchema(stmt.table, stmt.joins), order_clause.name)].v

\* Tuples a and b agree on the first k keys of the ORDER BY list.
SameKeys(a, b, stmt, k) ==
    \A j \in 1..k : KeyOf(a, stmt.order_by[j], stmt) = KeyOf(b, stmt.order_by[j], stmt)

\* Tuple a goes before tuple b by the ORDER BY list: on the first key on which
\* they differ, a is smaller (Asc) or larger (Desc).
Precedes(a, b, stmt) ==
    \E k \in DOMAIN stmt.order_by :
        /\ SameKeys(a, b, stmt, k - 1)
        /\ IF stmt.order_by[k].direction = "Asc"
           THEN KeyOf(a, stmt.order_by[k], stmt) < KeyOf(b, stmt.order_by[k], stmt)
           ELSE KeyOf(a, stmt.order_by[k], stmt) > KeyOf(b, stmt.order_by[k], stmt)

\* rows is unsorted rearranged, ordered by the ORDER BY list, with the tuples
\* that agree on every key in the order they had.
StablySorted(rows, unsorted, stmt) ==
    /\ Len(rows) = Len(unsorted)
    /\ \E pi \in Rearrangements(Len(unsorted)) :
          /\ \A k \in DOMAIN rows : rows[k] = unsorted[pi[k]]
          /\ \A k, l \in DOMAIN rows :
                k < l => \/ Precedes(rows[k], rows[l], stmt)
                         \/ ( /\ SameKeys(rows[k], rows[l], stmt, Len(stmt.order_by))
                              /\ pi[k] < pi[l] )

\* The ORDER BY keys of stmt are columns of its base table.
BaseKeys(stmt) ==
    \A k \in DOMAIN stmt.order_by :
        /\ stmt.order_by[k].table \in {"", stmt.table}
        /\ position(SchemaOf(stmt.table), stmt.order_by[k].name) # 0

\* C22: a SELECT with ORDER BY on one or several keys (columns of the base
\* table, with or without joins) returns a permutation of the unsorted result,
\* ordered by the first key in its direction, ties broken by the next keys, and
\* tuples equal on every key in the order they had before.
C22_OrderByStable ==
    [][\A tx \in Active :
          ( /\ last'.op = "select" /\ last'.tx = tx /\ last'.res = "Ok"
            /\ last'.stmt.order_by # << >> /\ BaseKeys(last'.stmt) )
          => StablySorted(last'.rows, Satisfying(tx, last'.stmt), last'.stmt)]_vars

\* C22 witness: a SELECT returned three tuples with the second base row first,
\* its key larger, and then two tuples of the first base row, which tie, in the
\* order of the joined rows.
C22_Witness ==
    /\ last.op = "select" /\ Len(last.rows) = 3
    /\ last.rows[1].i = 1 /\ last.rows[2].i = 0 /\ last.rows[3].i = 0
    /\ last.rows[1].data[2].v > last.rows[2].data[2].v
    /\ last.rows[2].data[3].v < last.rows[3].data[3].v

\* Every ORDER BY key of stmt is a column of its combined tuple.
KeysInTuple(stmt) ==
    \A k \in DOMAIN stmt.order_by :
        position(CombinedSchema(stmt.table, stmt.joins), stmt.order_by[k].name) # 0

\* C23: in a SELECT with joins every ORDER BY column, qualified or not, is read
\* at its index in the combined tuple (a column of the n-th joined table at the
\* length of the base schema plus the lengths of the earlier joined schemas
\* plus its position), also when the schemas differ in length and with two
\* joins: the result is ordered by the values of the columns named.
C23_OrderByJoinedColumn ==
    [][\A tx \in Active :
          ( /\ last'.op = "select" /\ last'.tx = tx /\ last'.res = "Ok"
            /\ last'.stmt.joins # << >> /\ last'.stmt.order_by # << >>
            /\ KeysInTuple(last'.stmt) /\ ~BaseKeys(last'.stmt) )
          => StablySorted(last'.rows, Satisfying(tx, last'.stmt), last'.stmt)]_vars

\* The join column a pair of the ON condition names, for base row b and joined
\* row r: a pair with the joined table's name is a column of r, a pair with the
\* base table's name or none is a column of b; << >> when there is no such column.
JoinColumn(pair, b, r, stmt) ==
    LET in_joined == pair.table_name = stmt.joins[1].table
        schema == IF in_joined THEN SchemaOf(stmt.joins[1].table) ELSE SchemaOf(stmt.table)
        idx == IF in_joined \/ pair.table_name \in {"", stmt.table}
               THEN position(schema, pair.column_name) ELSE 0
    IN  IF idx = 0 THEN << >> ELSE << (IF in_joined THEN r ELSE b)[idx] >>

\* The pairs (n, r) of a base row and a joined row whose join columns are equal.
EqualPairs(base, joined_rows, stmt) ==
    {p \in (DOMAIN base) \X (DOMAIN joined_rows) :
        LET l == JoinColumn(stmt.joins[1].on[1], base[p[1]].data, joined_rows[p[2]], stmt)
            r == JoinColumn(stmt.joins[1].on[2], base[p[1]].data, joined_rows[p[2]], stmt)
        IN  l # << >> /\ r # << >> /\ l[1] = r[1]}

\* C24: a SELECT with one INNER JOIN (no WHERE, no ORDER BY) returns exactly one
\* combined tuple, base row followed by joined row, for every pair of a base row
\* and a joined row whose join columns are equal, and no other tuple, in
\* base-row order and within one base row in joined-row order.
C24_InnerJoinPairs ==
    [][\A tx \in Active :
          ( /\ last'.op = "select" /\ last'.tx = tx /\ last'.res = "Ok"
            /\ Len(last'.stmt.joins) = 1 /\ last'.stmt.order_by = << >>
            /\ last'.stmt.where_clause = NoWhere )
          => LET stmt == last'.stmt
                 base == CombinedTuples(tx, [stmt EXCEPT !.joins = << >>])
                 joined_rows == active_transactions[tx].storage[stmt.joins[1].table]
                 pairs == EqualPairs(base, joined_rows, stmt)
             IN  /\ Len(last'.rows) = Cardinality(pairs)
                 /\ \E f \in [DOMAIN last'.rows -> pairs] :
                       /\ \A k \in DOMAIN f :
                             last'.rows[k].data = base[f[k][1]].data \o joined_rows[f[k][2]]
                       /\ \A k, l \in DOMAIN f :
                             k < l => \/ f[k][1] < f[l][1]
                                      \/ (f[k][1] = f[l][1] /\ f[k][2] < f[l][2])]_vars

\* C24 witness: a SELECT with one join returned three tuples, two of the first
\* base row and one of the second.
C24_Witness ==
    /\ last.op = "select" /\ last.res = "Ok" /\ Len(last.stmt.joins) = 1
    /\ last.stmt.order_by = << >> /\ last.stmt.where_clause = NoWhere
    /\ Len(last.rows) = 3
    /\ last.rows[1].i = 0 /\ last.rows[2].i = 0 /\ last.rows[3].i = 1

\* C25: execute_statement_committed with a statement other than SELECT returns
\* InvalidOperation and changes no state (database, MVCC versions, locks, WAL,
\* active transactions).
C25_CommittedRefusesWrites ==
    [][(last'.op = "execute_statement_committed" /\ last'.stmt.kind # "Select")
       => /\ last'.res = "InvalidOperation"
          /\ UNCHANGED <<reef_db, versions, timestamp_counter, read_ts, lock_manager,
                         wait_for, wal, active_transactions, savepoints, next_id>>]_vars

\* The rows of a table whose first column is not an integer.
TextKeyed(rows) == {n \in DOMAIN rows : rows[n][1].t # "Integer"}

\* C28: rows whose first column is not an integer are read directly from
\* storage: a SELECT (without join) returns each of them that satisfies the
\* WHERE clause, and an UPDATE skips them and does not count them.
C28_TextKeyedRowsRead ==
    [][\A tx \in Active :
          LET rows == active_transactions[tx].storage["t"] IN
          /\ ( /\ last'.op = "select" /\ last'.tx = tx /\ last'.res = "Ok"
                /\ last'.stmt.table = "t" /\ last'.stmt.joins = << >> )
             => \A n \in TextKeyed(rows) :
                    ( \/ last'.stmt.where_clause = NoWhere
                      \/ evaluate_where_clause(last'.stmt.where_clause, rows[n],
                                                SchemaOf("t"), "t") )
                    => \E k \in DOMAIN last'.rows : last'.rows[k].data = rows[n]
          /\ (last'.op = "update" /\ last'.tx = tx /\ last'.table = "t")
             => /\ last'.updated_count <= Len(rows) - Cardinality(TextKeyed(rows))
                /\ \A k \in Keys : \A v \in DOMAIN versions'[k] :
                       versions'[k][v].data[1].t = "Integer"]_vars

\* C26: rollback_to_savepoint(T, s) that returns Ok discards the savepoints of
\* T created after s and keeps s and those created before it, so a second
\* rollback_to_savepoint(T, s) succeeds and a rollback to a savepoint created
\* after s fails with SavepointNotFound; the savepoints of the other
\* transactions are unchanged.
C26_RollbackKeepsEarlier ==
    [][\A tx \in Active :
          (last'.op = "rollback_to_savepoint" /\ last'.tx = tx /\ last'.res = "Ok")
          => LET i == IndexOf(savepoints[tx], last'.name) IN
             /\ i # 0
             /\ savepoints'[tx] = SubSeq(savepoints[tx], 1, i)
             /\ \A t \in TxIds \ {tx} : savepoints'[t] = savepoints[t]
             /\ rollback_to_savepoint_on(Manager', tx, last'.name, FALSE).res = "Ok"
             /\ \A j \in (i + 1)..Len(savepoints[tx]) :
                    rollback_to_savepoint_on(Manager', tx, savepoints[tx][j].name, FALSE).res
                        = "SavepointNotFound"]_vars

\* C26 witness: a rollback to a savepoint returned Ok and discarded a later one,
\* while another transaction is active.
C26_Witness ==
    /\ last.op = "rollback_to_savepoint" /\ last.res = "Ok" /\ last.discarded # {}
    /\ savepoints[last.tx] # << >>
    /\ Active \ {last.tx} # {}

\* C27: rollback_to_savepoint(T, name) of an active transaction with a name that
\* is not among T's savepoints (never created, released or discarded) returns
\* SavepointNotFound and leaves T's working copy, the shared database, the WAL
\* and the savepoints unchanged.
C27_UnknownSavepointNoEffect ==
    [][\A tx \in Active :
          ( /\ last'.op = "rollback_to_savepoint" /\ last'.tx = tx
            /\ IndexOf(savepoints[tx], last'.name) = 0 )
          => /\ last'.res = "SavepointNotFound"
             /\ UNCHANGED <<active_transactions, reef_db, wal, savepoints>>]_vars

\* C27 witness: a rollback to a name that is not among the savepoints of the
\* transaction returned SavepointNotFound, the transaction having a savepoint.
C27_Witness ==
    /\ last.op = "rollback_to_savepoint" /\ last.res = "SavepointNotFound"
    /\ last.tx \in Active /\ savepoints[last.tx] # << >>
    /\ wal # << >>

\* C29: after any sequence of begin_transaction, commit_transaction and
\* rollback_transaction calls the id a begin_transaction returns was returned by
\* no earlier call and is larger than every id returned before, and every
\* active transaction has an MVCC read timestamp, the read timestamps of the
\* active transactions being pairwise distinct and increasing in begin order.
C29_IdsAndReadTimestampsIncrease ==
    [][ /\ (last'.op = "begin_transaction" /\ last'.res = "Ok")
           => /\ outcome[last'.tx].state = "none"
              /\ \A t \in TxIds : outcome[t].state # "none" => t < last'.tx
              /\ last'.tx \in DOMAIN active_transactions'
        /\ \A t \in DOMAIN active_transactions' : t \in DOMAIN read_ts'
        /\ \A t1, t2 \in DOMAIN active_transactions' :
              t1 < t2 => read_ts'[t1] < read_ts'[t2]
      ]_vars

\* C29 witness: begin_transaction returned while an earlier transaction is
\* still active.
C29_Witness ==
    /\ last.op = "begin_transaction" /\ last.res = "Ok"
    /\ \E t \in Active : t < last.tx

\* The calls that take the id of a transaction, acquire_lock apart.
CallsWithId ==
    {"commit_transaction", "rollback_transaction", "insert", "update", "select",
     "create_savepoint", "rollback_to_savepoint", "release_savepoint"}

\* C30: once a transaction id has committed or rolled back, every later
\* commit_transaction, rollback_transaction, execute_statement,
\* create_savepoint, rollback_to_savepoint and release_savepoint with that id
\* returns an error and changes no state.
C30_EndedIdRefused ==
    [][\A t \in TxIds :
          ( /\ outcome[t].state \in {"committed", "aborted"}
            /\ last'.tx = t /\ last'.op \in CallsWithId )
          => /\ last'.res # "Ok"
             /\ UNCHANGED <<next_id, active_transactions, lock_manager, wait_for,
                            timestamp_counter, read_ts, versions, savepoints, wal,
                            reef_db>>]_vars

\* C30 witness: rollback_transaction was called with the id of a transaction
\* that had committed, while another transaction is active and has a savepoint.
C30_Witness ==
    /\ last.op = "rollback_transaction" /\ last.res # "Ok"
    /\ outcome[last.tx].state = "committed"
    /\ \E t \in Active : savepoints[t] # << >>

\* C32: when acquire_lock(T, table, mode) has returned, with success, with a lock
\* conflict or with Deadlock, the wait-for graph holds no edge whose waiter is T.
C32_NoWaitEdgeAfterReturn ==
    last.op = "acquire_lock" => \A e \in wait_for : e[1] # last.tx

\* C32 witness: a request met holders other than the requester, so edges to them
\* were added, and the lock manager refused it.
C32_Witness ==
    /\ last.op = "acquire_lock" /\ last.res = "LockConflict"
    /\ get_lock_holders(lock_manager, last.table) # {}
    /\ ~has_lock(lock_manager, last.tx, last.table)

\* C36: between the calls of acquire_lock the wait-for graph is empty, and no call
\* of acquire_lock returns Deadlock.
C36_GraphEmptyNoDeadlock ==
    wait_for = {} /\ last.res # "Deadlock"

\* C36 witness: two transactions each hold one table Exclusive and each has asked
\* for the table of the other; the second of the crossing requests has returned.
C36_Witness ==
    /\ ops >= 4 /\ last.op = "acquire_lock" /\ last.res = "LockConflict"
    /\ \E t1 \in TxIds \ {last.tx}, tb \in Tables \ {last.table} :
          /\ lock_manager[last.table] = [holders |-> {t1}, mode |-> "Exclusive"]
          /\ lock_manager[tb] = [holders |-> {last.tx}, mode |-> "Exclusive"]

\* C34: in every reachable state every id that holds a lock is in the
\* active-transaction map: no lock is granted to an id that never began or has
\* ended, and no lock outlives its transaction.
C34_HoldersAreActive ==
    \A tb \in Tables : get_lock_holders(lock_manager, tb) \subseteq DOMAIN active_transactions

\* C35: in every reachable state every uncommitted version of the store belongs
\* to a transaction of the active-transaction map: the versions of a transaction
\* that ended, on whatever path of commit or rollback, are committed or gone.
C35_UncommittedAreActive ==
    \A k \in Keys : \A i \in DOMAIN versions[k] :
        ~versions[k][i].committed => versions[k][i].tx_id \in DOMAIN active_transactions

\* C38: a commit of T2 that returns Ok and whose working copy of a table is as it
\* was cloned at begin leaves in the shared database every row of that table that
\* an earlier committed transaction inserted.
C38_CommittedRowsSurvive ==
    [][\A t2 \in Active, tb \in Tables :
          ( /\ last'.op = "commit_transaction" /\ last'.res = "Ok" /\ last'.tx = t2
            /\ active_transactions[t2].tables[tb] = active_transactions[t2].snapshot[tb] )
          => \A t1 \in TxIds \ {t2} :
                ( /\ outcome[t1].state = "committed" /\ InsertStmt(t1).table = tb
                  /\ HasRow(reef_db.tables[tb], InsertStmt(t1).row) )
                => HasRow(reef_db'.tables[tb], InsertStmt(t1).row)]_vars

\* C39: a commit_transaction(T) of an active T that returns an error leaves none
\* of T's versions committed and the shared database as it was; one that returns
\* Ok leaves every version of T committed and the shared tables equal to T's
\* working copy.
C39_CommitAllOrNothing ==
    [][\A t \in Active :
          (last'.op = "commit_transaction" /\ last'.tx = t) =>
             IF last'.res = "Ok"
             THEN /\ \A k \in Keys : \A i \in DOMAIN versions'[k] :
                        versions'[k][i].tx_id = t => versions'[k][i].committed
                  /\ reef_db'.tables = get_table_state(active_transactions[t])
             ELSE /\ \A k \in Keys : \A i \in DOMAIN versions'[k] :
                        versions'[k][i].tx_id = t => ~versions'[k][i].committed
                  /\ reef_db' = reef_db]_vars

\* C40: an UPDATE of an active transaction that returns an error leaves no
\* version it wrote: the version store is as it was before the statement.
C40_FailedUpdateWritesNothing ==
    [][(last'.op = "update" /\ last'.res \notin {"Ok", NotFound}) => versions' = versions]_vars

C33_SerializableSelectLocks ==
    ( /\ last.op = "try_execute_with_retry" /\ last.res = "Ok" /\ last.stmt.kind = "Select"
      /\ active_transactions[last.tx].isolation_level = "Serializable" )
    => has_lock(lock_manager, last.tx, last.stmt.table)

\* The mutexes thread t holds.
Held(t) == {m \in Mutexes : sync.owner[m] = t}

\* Thread t is at a lock() of a mutex that a thread holds.
Waiting(t) ==
    /\ NextStep(t) # << >> /\ NextStep(t)[1] = "lock"
    /\ sync.owner[NextStep(t)[2]] # 0

\* <<t, u>>: thread t waits for a mutex that thread u holds.
MutexWaits == {<<t, sync.owner[NextStep(t)[2]]>> : t \in {u \in TxIds : Waiting(u)}}

\* An order of the mutexes: the database first, the deadlock detector last.
MutexRank(m) ==
    CASE m = "reef_db" -> 1
      [] m = "deadlock_detector" -> 3
      [] OTHER -> 2

\* C37: whatever operations the threads are in, a thread locks a mutex only
\* while it holds mutexes that come before it in one order of the mutexes, and
\* no threads wait for each other in a cycle: no thread waits for a mutex held by
\* a thread that waits, directly or through others, for a mutex it holds itself.
C37_MutexOrderNoDeadlock ==
    /\ \A t \in TxIds :
          (NextStep(t) # << >> /\ NextStep(t)[1] = "lock")
             => \A h \in Held(t) : MutexRank(h) < MutexRank(NextStep(t)[2])
    /\ \A t \in TxIds :
          t \notin ReachSet(MutexWaits, {e[2] : e \in {f \in MutexWaits : f[1] = t}})

\* C37 witness: a thread that holds the database mutex waits for a mutex that
\* another thread holds.
C37_Witness ==
    \E t \in TxIds :
        /\ Waiting(t) /\ "reef_db" \in Held(t)
        /\ sync.owner[NextStep(t)[2]] # t

====
